---- MODULE Spec2Model ----
(***************************************************************************)
(* Fuel-depot digital twin: alert evaluation (batch alerting service and   *)
(* message-driven processing service), alert storage, and the calculation  *)
(* service cycle.                                                          *)
(*                                                                         *)
(* Encoding.  Percentages are fixed-point hundredths (9000 = 90.00 %).     *)
(* A metric value is a record [kind, v]: kind "none" is Python None,       *)
(* "num" a float, "str" a string that float() rejects.  Optional rule      *)
(* fields that are absent from the rule dict are Null.                     *)
(***************************************************************************)
EXTENDS Integers, Sequences, FiniteSets, TLC

VARIABLES
    now,                      \* wall clock (datetime.now), in seconds
    alert_configurations,     \* table alert_configurations: Seq of rule rows
    alerts,                   \* table alerts: Seq of rows, index = alert_id
    sensor_readings,          \* table sensor_readings: set of rows
    calculated_data,          \* table calculated_data: set of rows
    digital_twin_state,       \* processing service: asset_id -> in-memory DataPoints
    ALERT_RULES,              \* processing service: rules loaded at startup
    potential_alerts_tracker, \* processing service: alert_key -> candidate
    alert_rules,              \* AlertingService.alert_rules (reloaded each cycle)
    alert_cycle,              \* AlertingService.run_cycle position
    calc_cycle,               \* CalculationService.run_cycle position
    save_race,                \* position of each evaluator inside an interleaved evaluation
    first_true,               \* observation only: <<asset, alert>> -> time an evaluation
                              \*   first found the trigger condition true (Null: never)
    last                      \* observation only: what the last handler step did

vars == <<now, alert_configurations, alerts, sensor_readings, calculated_data,
          digital_twin_state, ALERT_RULES, potential_alerts_tracker,
          alert_rules, alert_cycle, calc_cycle, save_race, first_true, last>>

-----------------------------------------------------------------------------
(* Bounds *)

MaxTime == 2
MaxAlerts == 2
MaxDataTime == 2

-----------------------------------------------------------------------------
(* Values *)

Null == -1

NoneV == [kind |-> "none", v |-> 0]

Num(n) == [kind |-> "num", v |-> n]

StrV == [kind |-> "str", v |-> 0]

\* Python round(): nearest, ties to even; num/den with den > 0, num >= 0.
RoundHalfEven(num, den) ==
    LET q == num \div den
        r == num % den
    IN  IF 2 * r < den THEN q
        ELSE IF 2 * r > den THEN q + 1
        ELSE IF q % 2 = 0 THEN q ELSE q + 1

-----------------------------------------------------------------------------
(* Assets (table assets, ordered by asset_id) *)

AssetTable ==
    << [asset_id |-> "P1", asset_type |-> "Pump"],
       [asset_id |-> "T1", asset_type |-> "StorageTank"],
       [asset_id |-> "T2", asset_type |-> "StorageTank"] >>

AssetIds == {AssetTable[i].asset_id : i \in DOMAIN AssetTable}

AssetType(a) ==
    AssetTable[CHOOSE i \in DOMAIN AssetTable : AssetTable[i].asset_id = a].asset_type

\* strapping table cache of the processing service: level_mm -> volume_litres
StrappingTable(a) ==
    IF a = "T1" THEN [l \in {0, 16000} |-> l \div 2] ELSE << >>

-----------------------------------------------------------------------------
(* Alert rules *)

GoodTemplate == {"asset_id", "value", "threshold"}

BadTemplate == {"asset_id", "metric"}

Rule(name, cond, thr, clr, dur, tmpl) ==
    [asset_type |-> "StorageTank", metric_name |-> "level_percentage",
     condition_type |-> cond, threshold_value |-> thr,
     clear_threshold_value |-> clr, duration_seconds |-> dur,
     alert_name |-> name, message_template |-> tmpl,
     severity |-> "Warning", is_enabled |-> TRUE]

\* contents of alert_configurations the deployments are started with
RuleConfigs ==
    { << Rule("TANK_LEVEL_HIGH", "gte", 9000, 8500, 2, GoodTemplate),
         Rule("TANK_LEVEL_LOW", "lte", 8400, Null, Null, GoodTemplate) >>,
      << Rule("TANK_LEVEL_HIGH", "gte", 9000, 8500, 0, GoodTemplate),
         Rule("TANK_LEVEL_LOW", "lte", 8400, Null, Null, GoodTemplate) >>,
      << Rule("TANK_LEVEL_HIGH", ">=", 9000, 8500, 2, GoodTemplate),
         Rule("TANK_LEVEL_LOW", "<=", 8400, Null, Null, GoodTemplate) >>,
      << Rule("TANK_LEVEL_HIGH", ">=", 9000, 8500, 2, BadTemplate),
         Rule("TANK_LEVEL_LOW", "<=", 8400, Null, Null, GoodTemplate) >> }

to_rule_dict(row) ==
    [metric |-> row.metric_name, condition |-> row.condition_type,
     threshold |-> row.threshold_value, alert_name |-> row.alert_name,
     message_template |-> row.message_template, severity |-> row.severity,
     clear_threshold |-> row.clear_threshold_value,
     duration_seconds |-> row.duration_seconds,
     asset_type |-> row.asset_type]

RECURSIVE MapRules(_)
MapRules(rows) ==
    IF rows = << >> THEN << >>
    ELSE (IF Head(rows).is_enabled THEN << to_rule_dict(Head(rows)) >> ELSE << >>)
         \o MapRules(Tail(rows))

\* the dict asset_type -> [rule, ...] as one sequence tagged with asset_type
load_alert_rules_from_db(rows) == MapRules(rows)

\* a variant that hands every loaded rule to every asset
RulesForTypeAny(loaded, type) == loaded

RulesForType(loaded, type) == SelectSeq(loaded, LAMBDA r : r.asset_type = type)

\* str.format(asset_id=, value=, threshold=): KeyError on any other field
FormatRaises(rule) == ~(rule.message_template \subseteq GoodTemplate)

-----------------------------------------------------------------------------
(* Alert storage *)

HasActive(al, a, n) ==
    \E i \in DOMAIN al :
        al[i].asset_id = a /\ al[i].alert_name = n /\ al[i].status = "Active"

\* lines 210-226: return the id found, or add the row and commit
save_alert_insert(al, a, n, found) ==
    IF found THEN al
    ELSE Append(al, [asset_id |-> a, alert_name |-> n, status |-> "Active"])

\* the query of lines 208-209 left out: insert without looking for an Active row
save_alert_unchecked(al, a, n, dberr) ==
    IF dberr THEN al
    ELSE Append(al, [asset_id |-> a, alert_name |-> n, status |-> "Active"])

\* lines 226-229: an exception is logged, rolled back, and None returned
save_alert(al, a, n, dberr) ==
    IF dberr THEN al
    ELSE save_alert_insert(al, a, n, HasActive(al, a, n))

resolve_alerts_for_condition(al, a, n, dberr) ==
    IF dberr THEN al
    ELSE [i \in DOMAIN al |->
            IF al[i].asset_id = a /\ al[i].alert_name = n /\ al[i].status = "Active"
            THEN [al[i] EXCEPT !.status = "Resolved"]
            ELSE al[i]]

-----------------------------------------------------------------------------
(* Processing service: in-memory asset state *)

NewTank == [current_level_mm |-> NoneV, current_level_percentage |-> NoneV,
            current_volume_litres |-> NoneV, current_temperature |-> NoneV,
            gross_standard_volume_litres |-> NoneV,
            high_level_alarm |-> NoneV, low_level_alarm |-> NoneV]

NewPump == [status |-> NoneV, control_mode |-> NoneV, current_power |-> NoneV,
            current_vibration |-> NoneV, current_temperature |-> NoneV,
            run_hours |-> NoneV]

load_assets_from_db ==
    [a \in AssetIds |-> IF AssetType(a) = "StorageTank" THEN NewTank ELSE NewPump]

max_level_mm(a) ==
    LET t == StrappingTable(a)
    IN  IF DOMAIN t = {} THEN 0
        ELSE CHOOSE m \in DOMAIN t : \A k \in DOMAIN t : k <= m

\* StorageTank.update_iot_level; _calculate_volume_from_level is the 0.0 placeholder
update_iot_level(obj, a, level_mm) ==
    [obj EXCEPT
        !.current_level_mm = Num(level_mm),
        !.current_level_percentage =
            IF max_level_mm(a) > 0
            THEN Num(RoundHalfEven(level_mm * 10000, max_level_mm(a)))
            ELSE Num(0),
        !.current_volume_litres = Num(0)]

update_temperature(obj, temperature_c) ==
    [obj EXCEPT !.current_temperature = Num(temperature_c)]

get_asset_metric_value(obj, type, metric) ==
    IF metric \in DOMAIN obj THEN obj[metric]
    ELSE IF type = "StorageTank" /\ metric = "level_percentage"
         THEN obj.current_level_percentage
    ELSE IF type = "StorageTank" /\ metric = "temperature"
         THEN obj.current_temperature
    ELSE IF type = "Pump" /\ metric = "power" THEN obj.current_power
    ELSE IF type = "Pump" /\ metric = "vibration" THEN obj.current_vibration
    ELSE IF type = "Pump" /\ metric = "state" THEN obj.status
    ELSE NoneV

-----------------------------------------------------------------------------
(* Processing service: check_and_process_asset_alerts *)

AlertKey(a, n) == a \o "_" \o n

DropKey(tr, k) == [x \in (DOMAIN tr) \ {k} |-> tr[x]]

PutKey(tr, k, e) == [x \in (DOMAIN tr) \cup {k} |-> IF x = k THEN e ELSE tr[x]]

\* lines 152-168: float(str) raising ValueError leaves the flag False
is_primary_trigger_condition_met(rule, val) ==
    IF val.kind # "num" THEN FALSE
    ELSE CASE rule.condition = "gt"  -> val.v > rule.threshold
           [] rule.condition = "lt"  -> val.v < rule.threshold
           [] rule.condition = "gte" -> val.v >= rule.threshold
           [] rule.condition = "lte" -> val.v <= rule.threshold
           [] rule.condition = "eq"  -> val.v = rule.threshold
           [] rule.condition = "ne"  -> val.v # rule.threshold
           [] OTHER -> FALSE

\* lines 185-191
should_resolve(rule, val) ==
    IF rule.clear_threshold # Null /\ val.kind = "num"
    THEN \/ rule.condition \in {"gt", "gte"} /\ val.v < rule.clear_threshold
         \/ rule.condition \in {"lt", "lte"} /\ val.v > rule.clear_threshold
    ELSE TRUE

\* lines 178-179: elapsed_time.total_seconds() >= duration_seconds
DurationElapsedStrict(entry, rule, t) ==
    t - entry.first_seen_utc > rule.duration_seconds

DurationElapsed(entry, rule, t) ==
    t - entry.first_seen_utc >= rule.duration_seconds

\* a storage call of the evaluation st = [al, ..., failed, kept]; dberr = the
\* alert names whose storage call fails; failed collects those that did, kept
\* the alerts save_alert found Active already (observation only)
SaveAlert(st, a, n, dberr) ==
    [st EXCEPT !.al = save_alert(st.al, a, n, n \in dberr),
               !.failed = IF n \in dberr THEN @ \cup {n} ELSE @,
               !.kept = IF n \notin dberr /\ HasActive(st.al, a, n)
                        THEN @ \cup {n} ELSE @]

ResolveAlerts(st, a, n, dberr) ==
    [st EXCEPT !.al = resolve_alerts_for_condition(st.al, a, n, n \in dberr),
               !.failed = IF n \in dberr THEN @ \cup {n} ELSE @]

\* lines 144-149 and 194-199: resolve in storage, drop the candidate
ResolveAndDrop(st, a, n, dberr) ==
    LET key == AlertKey(a, n)
    IN  IF key \in DOMAIN st.tr
        THEN [(IF st.tr[key].notified_active
               THEN ResolveAlerts(st, a, n, dberr) ELSE st)
              EXCEPT !.tr = DropKey(st.tr, key)]
        ELSE ResolveAlerts(st, a, n, dberr)

\* One iteration of the rule loop.  st = [al, tr, exc, obs, failed]; obs
\* collects the alert names whose trigger condition was found true
\* (observation only).
CheckRule(st, a, rule, val, t, dberr) ==
    LET n   == rule.alert_name
        key == AlertKey(a, n)
        tr  == st.tr
        seen == [st EXCEPT !.obs = @ \cup {n}]
    IN
    IF val.kind = "none" THEN ResolveAndDrop(st, a, n, dberr)
    ELSE IF is_primary_trigger_condition_met(rule, val) THEN
        IF rule.duration_seconds # Null THEN
            IF key \notin DOMAIN tr
            THEN [seen EXCEPT !.tr = PutKey(tr, key,
                     [first_seen_utc |-> t, notified_active |-> FALSE,
                      last_value |-> val])]
            ELSE IF ~tr[key].notified_active /\ DurationElapsed(tr[key], rule, t)
            THEN IF FormatRaises(rule) THEN [seen EXCEPT !.exc = TRUE]
                 ELSE [SaveAlert(seen, a, n, dberr)
                       EXCEPT !.tr = [tr EXCEPT ![key].notified_active = TRUE]]
            ELSE seen
        ELSE IF FormatRaises(rule) THEN [seen EXCEPT !.exc = TRUE]
             ELSE SaveAlert(seen, a, n, dberr)
    ELSE IF should_resolve(rule, val) THEN ResolveAndDrop(st, a, n, dberr)
    ELSE st

RECURSIVE CheckRules(_, _, _, _, _, _)
CheckRules(st, a, rules, obj, t, dberr) ==
    IF rules = << >> \/ st.exc THEN st
    ELSE CheckRules(
            CheckRule(st, a, Head(rules),
                      get_asset_metric_value(obj, AssetType(a), Head(rules).metric),
                      t, dberr),
            a, Tail(rules), obj, t, dberr)

\* asset_type = type(asset_obj).__name__, the class the asset was loaded as
check_and_process_asset_alerts(al, tr, rules, a, obj, t, dberr) ==
    CheckRules([al |-> al, tr |-> tr, exc |-> FALSE, obs |-> {}, failed |-> {}, kept |-> {}], a,
               RulesForType(rules, AssetType(a)), obj, t, dberr)

-----------------------------------------------------------------------------
(* Storage of readings *)

SameReadingKey(r, t, a, src, m) ==
    r.time = t /\ r.asset_id = a /\ r.data_source_id = src /\ r.metric_name = m

\* the row stamped with the arrival time (the server default of the time
\* column) in place of the time handed in
save_sensor_reading_at_arrival(rows, t, a, src, m, val, dberr) ==
    IF dberr \/ \E r \in rows : SameReadingKey(r, now, a, src, m) THEN rows
    ELSE rows \cup {[time |-> now, asset_id |-> a, data_source_id |-> src,
                     metric_name |-> m, value |-> val]}

\* primary key (time, asset_id, data_source_id, metric_name): a second row
\* with the same key is an IntegrityError, rolled back
save_sensor_reading(rows, t, a, src, m, val, dberr) ==
    IF dberr \/ \E r \in rows : SameReadingKey(r, t, a, src, m) THEN rows
    ELSE rows \cup {[time |-> t, asset_id |-> a, data_source_id |-> src,
                     metric_name |-> m, value |-> val]}

-----------------------------------------------------------------------------
(* Storage of calculated data *)

Matching(rows, a, m) == {r \in rows : r.asset_id = a /\ r.metric_name = m}

\* ORDER BY time DESC LIMIT 1: the set holding the latest row, or {}
LatestRow(rows, a, m) ==
    {r \in Matching(rows, a, m) : \A q \in Matching(rows, a, m) : q.time <= r.time}

get_latest_sensor_reading(rows, a, m) == LatestRow(rows, a, m)

get_latest_calculated_data(rows, a, m) == LatestRow(rows, a, m)

\* db.add in place of db.merge: the row is added whatever the table holds
save_calculated_data_adding(rows, t, a, m, v, dberr) ==
    IF dberr THEN rows
    ELSE rows \cup {[time |-> t, asset_id |-> a, metric_name |-> m, value |-> v]}

\* db.merge on the primary key (time, asset_id, metric_name)
save_calculated_data(rows, t, a, m, v, dberr) ==
    IF dberr THEN rows
    ELSE {r \in rows : ~(r.time = t /\ r.asset_id = a /\ r.metric_name = m)}
         \cup {[time |-> t, asset_id |-> a, metric_name |-> m, value |-> v]}

-----------------------------------------------------------------------------
(* Calculation service *)

\* asset metadata columns read by the calculation service
TankMeta(a) ==
    IF a = "T1"
    THEN [density_at_20c_kg_m3 |-> 850, product_service |-> "DEFAULT"]
    ELSE [density_at_20c_kg_m3 |-> Null, product_service |-> "DEFAULT"]

\* table strapping_data
get_strapping_data_from_db(a) == StrappingTable(a)

\* a variant that goes on along a slope of one litre per mm above the table
calculate_gov_from_strapping_extrapolating(level_mm, table) ==
    LET ks == DOMAIN table
        lo == CHOOSE k \in ks : \A j \in ks : k <= j
        hi == CHOOSE k \in ks : \A j \in ks : j <= k
    IN  IF level_mm <= lo THEN table[lo]
        ELSE IF level_mm >= hi THEN table[hi] + (level_mm - hi)
        ELSE LET x0 == CHOOSE k \in ks : k <= level_mm /\ \A j \in ks : j <= level_mm => j <= k
                 x1 == CHOOSE k \in ks : k > level_mm /\ \A j \in ks : j > level_mm => k <= j
             IN  table[x0] + ((table[x1] - table[x0]) * (level_mm - x0)) \div (x1 - x0)

\* np.interp over the sorted table: clamps outside the table
calculate_gov_from_strapping(level_mm, table) ==
    LET ks == DOMAIN table
        lo == CHOOSE k \in ks : \A j \in ks : k <= j
        hi == CHOOSE k \in ks : \A j \in ks : j <= k
    IN  IF level_mm <= lo THEN table[lo]
        ELSE IF level_mm >= hi THEN table[hi]
        ELSE LET x0 == CHOOSE k \in ks : k <= level_mm /\ \A j \in ks : j <= level_mm => j <= k
                 x1 == CHOOSE k \in ks : k > level_mm /\ \A j \in ks : j > level_mm => k <= j
             IN  table[x0] + ((table[x1] - table[x0]) * (level_mm - x0)) \div (x1 - x0)

\* VolumeCalculator.get_vcf, in 1/100000: 1 - 0.00095 * (T - 20)
get_vcf(observed_temp_c) == 100000 - 95 * (observed_temp_c - 20)

calculate_gsv(gov_litres, observed_temp_c) ==
    (gov_litres * get_vcf(observed_temp_c)) \div 100000

\* MassBalanceCalculator: beta of product DEFAULT is 0.00095
calculate_density_at_temperature(density_at_20c, temperature_c) ==
    (density_at_20c * (100000 - 95 * (temperature_c - 20))) \div 100000

calculate_mass_from_volume(volume_litres, density_kg_m3) ==
    (volume_litres * density_kg_m3) \div 1000

\* EnergyBalanceCalculator(reference_temp_c = 0): m * Cp * (T - 0), Cp = 2.00
calculate_tank_heat_content(mass_kg, temperature_c) == mass_kg * 2 * temperature_c

\* idempotency guard of process_tank / process_pump
UpToDateStrict(cd, sr, a, proxy, raw) ==
    LET lr == get_latest_sensor_reading(sr, a, raw)
        lc == get_latest_calculated_data(cd, a, proxy)
    IN  lr # {} /\ lc # {} /\ \A r \in lr, c \in lc : c.time > r.time

UpToDate(cd, sr, a, proxy, raw) ==
    LET lr == get_latest_sensor_reading(sr, a, raw)
        lc == get_latest_calculated_data(cd, a, proxy)
    IN  lr # {} /\ lc # {} /\ \A r \in lr, c \in lc : c.time >= r.time

Saved(st, t, a, m, v, dberr) ==
    [st EXCEPT !.cd = save_calculated_data(st.cd, t, a, m, v, m \in dberr),
               !.saves = st.saves + 1]

\* stages 3-5 of process_tank, after volume_gov was saved
TankStages(st, a, t, gov, sr, d20, dberr) ==
    LET lt   == get_latest_sensor_reading(sr, a, "temperature")
        temp == (CHOOSE r \in lt : TRUE).value
    IN
    IF lt = {} \/ d20 = Null THEN st
    ELSE IF temp.kind # "num"
    \* get_vcf catches the TypeError (no volume_gsv); calculate_mass_in_tank
    \* raises it out of process_tank
    THEN [st EXCEPT !.exc = TRUE]
    ELSE
        LET s3   == Saved(st, t, a, "volume_gsv", calculate_gsv(gov, temp.v), dberr)
            dens == calculate_density_at_temperature(d20, temp.v)
            mass == calculate_mass_from_volume(gov, dens)
            s4   == IF mass > 0
                    THEN Saved(Saved(s3, t, a, "mass_kg", mass, dberr),
                               t, a, "density_at_temp", dens, dberr)
                    ELSE s3
            heat == calculate_tank_heat_content(mass, temp.v)
        IN  IF heat > 0 THEN Saved(s4, t, a, "heat_content_kj", heat, dberr) ELSE s4

\* a variant that looks for the strapping table before anything is saved
process_tank_table_first(cd, sr, a, tbl, d20, dberr) ==
    LET st0 == [cd |-> cd, saves |-> 0, exc |-> FALSE, skipped |-> FALSE]
        ll  == get_latest_sensor_reading(sr, a, "level_mm")
        lvl == CHOOSE r \in ll : TRUE
    IN
    IF ll = {} THEN st0
    ELSE IF UpToDate(cd, sr, a, "level_percentage", "level_mm")
    THEN [st0 EXCEPT !.skipped = TRUE]
    ELSE IF lvl.value.kind # "num" THEN [st0 EXCEPT !.exc = TRUE]
    ELSE IF DOMAIN tbl = {} THEN st0
    ELSE
        LET t   == lvl.time
            s1  == Saved(st0, t, a, "level_percentage",
                         (lvl.value.v * 10000) \div 16000, dberr)
            gov == calculate_gov_from_strapping(lvl.value.v, tbl)
        IN  TankStages(Saved(s1, t, a, "volume_gov", gov, dberr),
                       a, t, gov, sr, d20, dberr)

\* process_tank with the strapping table of the tank (tbl) and the
\* density_at_20c_kg_m3 of tank_meta (d20) it finds; st = [cd, saves, exc, skipped]
process_tank_with(cd, sr, a, tbl, d20, dberr) ==
    LET st0 == [cd |-> cd, saves |-> 0, exc |-> FALSE, skipped |-> FALSE]
        ll  == get_latest_sensor_reading(sr, a, "level_mm")
        lvl == CHOOSE r \in ll : TRUE
    IN
    IF ll = {} THEN st0
    ELSE IF UpToDate(cd, sr, a, "level_percentage", "level_mm")
    THEN [st0 EXCEPT !.skipped = TRUE]
    ELSE IF lvl.value.kind # "num" THEN [st0 EXCEPT !.exc = TRUE]
    ELSE
        LET t   == lvl.time
            s1  == Saved(st0, t, a, "level_percentage",
                         (lvl.value.v * 10000) \div 16000, dberr)
        IN  IF DOMAIN tbl = {} THEN s1
            ELSE LET gov == calculate_gov_from_strapping(lvl.value.v, tbl)
                 IN  TankStages(Saved(s1, t, a, "volume_gov", gov, dberr),
                                a, t, gov, sr, d20, dberr)

process_tank(cd, sr, a, dberr) ==
    process_tank_with(cd, sr, a, get_strapping_data_from_db(a),
                      TankMeta(a).density_at_20c_kg_m3, dberr)

\* motor_power_kw default 55, efficiency default 0.85, interval 30 s;
\* power in 1/100 kW, energy in 1/10000 kWh, cost in 1/10000 GHS at 2.21 GHS/kWh
process_pump(cd, sr, a, dberr) ==
    LET st0 == [cd |-> cd, saves |-> 0, exc |-> FALSE, skipped |-> FALSE]
        ls  == get_latest_sensor_reading(sr, a, "pump_status")
        rd  == CHOOSE r \in ls : TRUE
    IN
    IF ls = {} THEN st0
    ELSE IF UpToDate(cd, sr, a, "energy_kwh", "pump_status")
    THEN [st0 EXCEPT !.skipped = TRUE]
    ELSE
        LET running == rd.value = Num(1)
            power   == IF running THEN RoundHalfEven(55 * 100 * 100, 85) ELSE 0
            energy  == IF running THEN RoundHalfEven(55 * 30 * 10000, 3060) ELSE 0
            cost    == IF running THEN RoundHalfEven(55 * 30 * 100 * 221, 3060) ELSE 0
        IN  Saved(Saved(Saved(st0, rd.time, a, "power_kw", power, dberr),
                        rd.time, a, "energy_kwh", energy, dberr),
                  rd.time, a, "operating_cost", cost, dberr)

-----------------------------------------------------------------------------
(* Inputs *)

LevelValues == {13280, 13920, 14720}

AlertNames == {"TANK_LEVEL_HIGH", "TANK_LEVEL_LOW"}

MsgAssets == {"T1"}

\* storage error on at most one alert call per evaluation
AlertDbErrs == {{}} \cup {{n} : n \in AlertNames}

Idle == [op |-> "none", asset |-> "", failed |-> {}, exc |-> FALSE, saves |-> 0,
         obs |-> {}, kept |-> {}, arg |-> << >>]

Pairs == AssetIds \X AlertNames

\* alert names of the configured rules that carry a duration
DurationRuleNames ==
    {alert_configurations[i].alert_name :
        i \in {j \in DOMAIN alert_configurations :
                  alert_configurations[j].duration_seconds # Null}}

\* first_true after an evaluation of asset a at time t that found the rules
\* in obs true; only rules with a duration are followed
Observed(a, obs, t) ==
    [p \in Pairs |-> IF /\ p[1] = a /\ p[2] \in obs \cap DurationRuleNames
                        /\ first_true[p] = Null
                     THEN t ELSE first_true[p]]

-----------------------------------------------------------------------------
(* Processing service actions *)

\* process_message_type for a known asset.  calculate_precise_gsv is called
\* with float arguments; its Decimal arithmetic raises TypeError on them, the
\* function catches it and returns None, so no gsv row is written here.
ProcessMessage(a, metric, val, ts, rderr, dberr) ==
    /\ a \in DOMAIN digital_twin_state
    /\ AssetType(a) = "StorageTank"
    /\ metric \in {"level", "temperature"}
    /\ val.kind = "num"
    /\ LET obj == IF metric = "level"
                  THEN update_iot_level(digital_twin_state[a], a, val.v)
                  ELSE update_temperature(digital_twin_state[a], val.v)
           st  == check_and_process_asset_alerts(alerts, potential_alerts_tracker,
                                                 ALERT_RULES, a, obj, now, dberr)
       IN  /\ Len(st.al) <= MaxAlerts
           /\ digital_twin_state' = [digital_twin_state EXCEPT ![a] = obj]
           /\ sensor_readings' = save_sensor_reading(sensor_readings, ts, a,
                                      "MQTT_sensor", metric, val, rderr)
           /\ alerts' = st.al
           /\ potential_alerts_tracker' = st.tr
           /\ first_true' = Observed(a, st.obs, now)
           /\ last' = [op |-> "msg", asset |-> a, failed |-> st.failed, exc |-> st.exc,
                       saves |-> 0, obs |-> st.obs, kept |-> st.kept, arg |-> << >>]
    /\ UNCHANGED <<now, alert_configurations, calculated_data, ALERT_RULES,
                   alert_rules, alert_cycle, calc_cycle, save_race>>

\* the processing service process is stopped and started again (__main__)
Restart ==
    /\ digital_twin_state' = load_assets_from_db
    /\ ALERT_RULES' = load_alert_rules_from_db(alert_configurations)
    /\ potential_alerts_tracker' = << >>
    /\ last' = Idle
    /\ UNCHANGED <<now, alert_configurations, alerts, sensor_readings,
                   calculated_data, alert_rules, alert_cycle, calc_cycle, save_race, first_true>>

Tick ==
    /\ now < MaxTime
    /\ now' = now + 1
    /\ last' = Idle
    /\ UNCHANGED <<alert_configurations, alerts, sensor_readings, calculated_data,
                   digital_twin_state, ALERT_RULES, potential_alerts_tracker,
                   alert_rules, alert_cycle, calc_cycle, save_race, first_true>>

-----------------------------------------------------------------------------

CycleIdle == [pc |-> "idle", queue |-> << >>, state |-> << >>, done |-> {},
              failed |-> {}, skipped |-> {}]

\* an evaluator that is not inside an evaluation
EvalIdle == [pc |-> "idle", asset |-> "", rules |-> << >>, found |-> FALSE, t |-> 0]

RaceIdle == [batch |-> EvalIdle, msg |-> EvalIdle]

Init ==
    /\ now = 0
    /\ alert_configurations \in RuleConfigs \cup {<< >>}
    /\ alerts = << >>
    /\ sensor_readings = {}
    /\ calculated_data = {}
    /\ digital_twin_state = load_assets_from_db
    /\ ALERT_RULES = load_alert_rules_from_db(alert_configurations)
    /\ potential_alerts_tracker = << >>
    /\ alert_rules = << >>
    /\ alert_cycle = CycleIdle
    /\ calc_cycle = CycleIdle
    /\ save_race = RaceIdle
    /\ first_true = [p \in Pairs |-> Null]
    /\ last = Idle

-----------------------------------------------------------------------------
(* Data processor service: on_message stores the reading of a sensor topic *)

DataProcessorOnMessage(a, metric, val, ts, dberr) ==
    /\ sensor_readings' = save_sensor_reading(sensor_readings, ts, a,
                              "sensor_" \o a \o "_" \o metric, metric, val, dberr)
    /\ last' = [Idle EXCEPT !.op = "data", !.asset = a]
    /\ UNCHANGED <<now, alert_configurations, alerts, calculated_data,
                   digital_twin_state, ALERT_RULES, potential_alerts_tracker,
                   alert_rules, alert_cycle, calc_cycle, save_race, first_true>>

-----------------------------------------------------------------------------
(* Calculation service: run_cycle, one asset per step *)

AssetsOfType(type) ==
    LET ids == [i \in DOMAIN AssetTable |-> AssetTable[i]]
    IN  [i \in DOMAIN SelectSeq(ids, LAMBDA r : r.asset_type = type) |->
            SelectSeq(ids, LAMBDA r : r.asset_type = type)[i].asset_id]

CalcAssets == {a \in AssetIds : AssetType(a) \in {"StorageTank", "Pump"}}

CalcCycleStart ==
    /\ calc_cycle.pc = "idle"
    /\ calc_cycle' = [CycleIdle EXCEPT !.pc = "run",
                        !.queue = AssetsOfType("StorageTank") \o AssetsOfType("Pump")]
    /\ last' = [Idle EXCEPT !.op = "calc_start"]
    /\ UNCHANGED <<now, alert_configurations, alerts, sensor_readings, calculated_data,
                   digital_twin_state, ALERT_RULES, potential_alerts_tracker,
                   alert_rules, alert_cycle, save_race, first_true>>

\* except Exception in the per-asset loop leaves the rest of the queue in place
QueueAfterFailureAborting(queue) == << >>

QueueAfterFailure(queue) == Tail(queue)

CalcProcessAsset(dberr) ==
    /\ calc_cycle.pc = "run"
    /\ calc_cycle.queue # << >>
    /\ LET a  == Head(calc_cycle.queue)
           st == IF AssetType(a) = "StorageTank"
                 THEN process_tank(calculated_data, sensor_readings, a, dberr)
                 ELSE process_pump(calculated_data, sensor_readings, a, dberr)
       IN  /\ calculated_data' = st.cd
           /\ calc_cycle' = [calc_cycle EXCEPT
                  !.queue   = IF st.exc THEN QueueAfterFailure(@) ELSE Tail(@),
                  !.done    = @ \cup {a},
                  !.failed  = IF st.exc THEN @ \cup {a} ELSE @,
                  !.skipped = IF st.skipped THEN @ \cup {a} ELSE @]
           /\ last' = [Idle EXCEPT !.op = "calc_process", !.asset = a,
                                    !.exc = st.exc, !.saves = st.saves]
    /\ UNCHANGED <<now, alert_configurations, alerts, sensor_readings,
                   digital_twin_state, ALERT_RULES, potential_alerts_tracker,
                   alert_rules, alert_cycle, save_race, first_true>>

\* the for loops are exhausted: run_cycle returns and start() sleeps
CalcCycleFinish ==
    /\ calc_cycle.pc = "run"
    /\ calc_cycle.queue = << >>
    /\ calc_cycle' = [calc_cycle EXCEPT !.pc = "idle"]
    /\ last' = [Idle EXCEPT !.op = "calc_finish"]
    /\ UNCHANGED <<now, alert_configurations, alerts, sensor_readings, calculated_data,
                   digital_twin_state, ALERT_RULES, potential_alerts_tracker,
                   alert_rules, alert_cycle, save_race, first_true>>

\* readings the sensors deliver to the data processor
CalcInputs ==
    { <<"T1", "level_mm", Num(14720)>>, <<"T1", "level_mm", StrV>>,
      <<"T1", "temperature", Num(20)>>,
      <<"T2", "level_mm", Num(13280)>>,
      <<"P1", "pump_status", Num(1)>> }

\* storage error on at most one metric per process_* call
CalcDbErrs == {{}} \cup {{m} : m \in {"level_percentage", "volume_gov"}}

\* only the level sensor of T1 reports at more than one time
DataStep ==
    \E inp \in CalcInputs, ts \in 1..MaxDataTime :
        /\ (inp[1] = "T1" /\ inp[2] = "level_mm") \/ ts = 1
        /\ DataProcessorOnMessage(inp[1], inp[2], inp[3], ts, FALSE)

CalcStep == \E dberr \in CalcDbErrs : CalcProcessAsset(dberr)

NextCalc == DataStep \/ CalcCycleStart \/ CalcStep \/ CalcCycleFinish

InitCalc == Init /\ alert_configurations = << >>

SpecCalc == InitCalc /\ [][NextCalc]_vars

-----------------------------------------------------------------------------
(* Alerting service: run_cycle, one asset per step *)

\* lines 101-111 after condition.lower()
is_triggered(rule, val) ==
    CASE rule.condition = ">"  -> val.v > rule.threshold
      [] rule.condition = "<"  -> val.v < rule.threshold
      [] rule.condition = ">=" -> val.v >= rule.threshold
      [] rule.condition = "<=" -> val.v <= rule.threshold
      [] OTHER -> FALSE

\* one iteration of the rule loop; st = [al, tr, exc, obs, failed] (tr is not
\* used by this evaluator); latest = metric -> value
CheckRuleBatch(st, a, rule, latest, dberr) ==
    LET n   == rule.alert_name
        val == latest[rule.metric]
    IN  IF val.kind = "none" THEN st
        ELSE IF is_triggered(rule, val)
        THEN IF FormatRaises(rule) THEN [st EXCEPT !.obs = @ \cup {n}, !.exc = TRUE]
             ELSE SaveAlert([st EXCEPT !.obs = @ \cup {n}], a, n, dberr)
        ELSE ResolveAlerts(st, a, n, dberr)

RECURSIVE CheckRulesBatch(_, _, _, _, _)
CheckRulesBatch(st, a, rules, latest, dberr) ==
    IF rules = << >> \/ st.exc THEN st
    ELSE CheckRulesBatch(CheckRuleBatch(st, a, Head(rules), latest, dberr),
                         a, Tail(rules), latest, dberr)

check_asset_against_rules(al, rules, a, latest, dberr) ==
    CheckRulesBatch([al |-> al, tr |-> << >>, exc |-> FALSE, obs |-> {}, failed |-> {}, kept |-> {}], a,
                    RulesForType(rules, AssetType(a)), latest, dberr)

\* get_metrics_for_asset_type + get_latest_readings_for_asset
latest_dynamic_state(rules, cd, a) ==
    LET rs == RulesForType(rules, AssetType(a))
        ms == {rs[i].metric : i \in DOMAIN rs}
    IN  [m \in ms |->
            IF get_latest_calculated_data(cd, a, m) = {} THEN NoneV
            ELSE Num((CHOOSE r \in get_latest_calculated_data(cd, a, m) : TRUE).value)]

AllAssets == [i \in DOMAIN AssetTable |-> AssetTable[i].asset_id]

AlertCycleStart ==
    /\ alert_cycle.pc = "idle"
    /\ alert_rules' = load_alert_rules_from_db(alert_configurations)
    /\ alert_cycle' =
          IF alert_rules' = << >> THEN CycleIdle
          ELSE [CycleIdle EXCEPT
                  !.pc = "check",
                  !.queue = AllAssets,
                  !.state = [a \in AssetIds |->
                               latest_dynamic_state(alert_rules', calculated_data, a)]]
    /\ last' = [Idle EXCEPT !.op = "alert_start"]
    /\ UNCHANGED <<now, alert_configurations, alerts, sensor_readings, calculated_data,
                   digital_twin_state, ALERT_RULES, potential_alerts_tracker,
                   calc_cycle, save_race, first_true>>

\* no try/except around check_asset_against_rules: the exception leaves
\* run_cycle and is caught in start()
AlertQueueAfterFailure(queue) == << >>

AlertCheckAsset(dberr) ==
    /\ alert_cycle.pc = "check"
    /\ alert_cycle.queue # << >>
    /\ LET a  == Head(alert_cycle.queue)
           st == check_asset_against_rules(alerts, alert_rules, a,
                                           alert_cycle.state[a], dberr)
       IN  /\ Len(st.al) <= MaxAlerts
           /\ alerts' = st.al
           /\ alert_cycle' = [alert_cycle EXCEPT
                  !.queue  = IF st.exc THEN AlertQueueAfterFailure(@) ELSE Tail(@),
                  !.done   = @ \cup {a},
                  !.failed = IF st.exc THEN @ \cup {a} ELSE @]
           /\ first_true' = Observed(a, st.obs, now)
           /\ last' = [op |-> "alert_check", asset |-> a, failed |-> st.failed,
                       exc |-> st.exc, saves |-> 0, obs |-> st.obs, kept |-> st.kept, arg |-> << >>]
    /\ UNCHANGED <<now, alert_configurations, sensor_readings, calculated_data,
                   digital_twin_state, ALERT_RULES, potential_alerts_tracker,
                   alert_rules, calc_cycle, save_race>>

\* run_cycle has returned or raised: start() logs and sleeps
AlertCycleFinish ==
    /\ alert_cycle.pc = "check"
    /\ alert_cycle.queue = << >>
    /\ alert_cycle' = [alert_cycle EXCEPT !.pc = "idle"]
    /\ last' = [Idle EXCEPT !.op = "alert_finish"]
    /\ UNCHANGED <<now, alert_configurations, alerts, sensor_readings, calculated_data,
                   digital_twin_state, ALERT_RULES, potential_alerts_tracker,
                   alert_rules, calc_cycle, save_race, first_true>>

\* the calculation cycle reaches tank a (process_tank alone, without the
\* bookkeeping of the cycle)
CalcTank(a) ==
    /\ calculated_data' = process_tank(calculated_data, sensor_readings, a, {}).cd
    /\ calculated_data' # calculated_data
    /\ last' = [Idle EXCEPT !.op = "calc_tank", !.asset = a]
    /\ UNCHANGED <<now, alert_configurations, alerts, sensor_readings,
                   digital_twin_state, ALERT_RULES, potential_alerts_tracker,
                   alert_rules, alert_cycle, calc_cycle, save_race, first_true>>

AlertStep == \E dberr \in AlertDbErrs : AlertCheckAsset(dberr)

\* level readings of T1 as the data processor stores them
LevelStep ==
    \E l \in LevelValues, ts \in 1..MaxDataTime :
        DataProcessorOnMessage("T1", "level_mm", Num(l), ts, FALSE)

NextBatch ==
    LevelStep \/ CalcTank("T1") \/ AlertCycleStart \/ AlertStep \/ AlertCycleFinish

InitBatch == Init /\ alert_configurations # << >>

SpecBatch == InitBatch /\ [][NextBatch]_vars

\* payload timestamps of the messages
MsgTimes == {1}

\* level messages of tank T1
MsgStep ==
    \E a \in MsgAssets, l \in LevelValues, ts \in MsgTimes, dberr \in AlertDbErrs :
        ProcessMessage(a, "level", Num(l), ts, FALSE, dberr)

Next == Tick \/ MsgStep \/ Restart

\* the processing service is started on rules in its own spelling
InitMsg ==
    /\ Init
    /\ alert_configurations # << >>
    /\ \A i \in DOMAIN alert_configurations :
          alert_configurations[i].condition_type \in {"gt", "lt", "gte", "lte", "eq", "ne"}

Spec == InitMsg /\ [][Next]_vars

-----------------------------------------------------------------------------
(* The two evaluators applied to values set directly *)

\* values a DataPoint can hold: DataPoint.update stores any value as it is
DataPointValues == {Num(8300), Num(8700), Num(9200), StrV}

\* DataPoint.update on the level percentage of tank a
DataPointUpdate(a, val) ==
    /\ AssetType(a) = "StorageTank"
    /\ digital_twin_state' =
          [digital_twin_state EXCEPT ![a].current_level_percentage = val]
    /\ last' = [Idle EXCEPT !.op = "update", !.asset = a]
    /\ UNCHANGED <<now, alert_configurations, alerts, sensor_readings, calculated_data,
                   ALERT_RULES, potential_alerts_tracker, alert_rules, alert_cycle,
                   calc_cycle, save_race, first_true>>

\* check_and_process_asset_alerts on the in-memory asset as it stands
Evaluate(a, dberr) ==
    /\ a \in DOMAIN digital_twin_state
    /\ LET st == check_and_process_asset_alerts(alerts, potential_alerts_tracker,
                     ALERT_RULES, a, digital_twin_state[a], now, dberr)
       IN  /\ Len(st.al) <= MaxAlerts
           /\ alerts' = st.al
           /\ potential_alerts_tracker' = st.tr
           /\ first_true' = Observed(a, st.obs, now)
           /\ last' = [op |-> "evaluate", asset |-> a, failed |-> st.failed,
                       exc |-> st.exc, saves |-> 0, obs |-> st.obs, kept |-> st.kept, arg |-> << >>]
    /\ UNCHANGED <<now, alert_configurations, sensor_readings, calculated_data,
                   digital_twin_state, ALERT_RULES, alert_rules, alert_cycle,
                   calc_cycle, save_race>>

\* check_asset_against_rules on asset a with val as the latest value of
\* every metric the rules read; the rules are those load_rules returns now
EvaluateBatch(a, val, dberr) ==
    /\ LET rules == load_alert_rules_from_db(alert_configurations)
           rs    == RulesForType(rules, AssetType(a))
           st    == check_asset_against_rules(alerts, rules, a,
                        [m \in {rs[i].metric : i \in DOMAIN rs} |-> val], dberr)
       IN  /\ Len(st.al) <= MaxAlerts
           /\ alerts' = st.al
           /\ alert_rules' = rules
           /\ first_true' = Observed(a, st.obs, now)
           /\ last' = [op |-> "batch_evaluate", asset |-> a, failed |-> st.failed,
                       exc |-> st.exc, saves |-> 0, obs |-> st.obs, kept |-> st.kept, arg |-> << >>]
    /\ UNCHANGED <<now, alert_configurations, sensor_readings, calculated_data,
                   digital_twin_state, ALERT_RULES, potential_alerts_tracker,
                   alert_cycle, calc_cycle, save_race>>

UpdateStep == \E val \in DataPointValues : DataPointUpdate("T1", val)

EvaluateStep == \E dberr \in AlertDbErrs : Evaluate("T1", dberr)

\* calculated_data.value is a non-null Float: the batch evaluator sees numbers
EvaluateBatchStep ==
    \E v \in {8300, 8700, 9200}, dberr \in AlertDbErrs :
        EvaluateBatch("T1", Num(v), dberr)

NextEval == UpdateStep \/ EvaluateStep \/ EvaluateBatchStep \/ Restart

InitEval == Init /\ alert_configurations # << >>

SpecEval == InitEval /\ [][NextEval]_vars

-----------------------------------------------------------------------------
(* The two evaluators as separate processes: save_alert's query for an    *)
(* Active row and its insert are two steps, every other statement of a     *)
(* rule iteration is one step.  save_race holds, per evaluator, the rules  *)
(* still to check for the asset and the result of the query.               *)

\* an operator rewrites the rules in the database, once, while the services
\* run: the processing service keeps the rules it loaded at startup
EditRules ==
    /\ load_alert_rules_from_db(alert_configurations) = ALERT_RULES
    /\ \E cfg \in RuleConfigs :
          /\ cfg # alert_configurations
          /\ \A i \in DOMAIN cfg : ~FormatRaises(to_rule_dict(cfg[i]))
          /\ alert_configurations' = cfg
    /\ last' = [Idle EXCEPT !.op = "edit"]
    /\ UNCHANGED <<now, alerts, sensor_readings, calculated_data, digital_twin_state,
                   ALERT_RULES, potential_alerts_tracker, alert_rules, alert_cycle,
                   calc_cycle, save_race, first_true>>

\* the evaluator after the rule at the head of ev.rules is done
AfterRule(ev) ==
    IF Tail(ev.rules) = << >> THEN EvalIdle
    ELSE [ev EXCEPT !.pc = "rules", !.rules = Tail(ev.rules), !.found = FALSE]

\* alert_cycle once the batch evaluator has become ev
BatchAdvance(ev, raised) ==
    IF raised
    THEN [alert_cycle EXCEPT !.queue = AlertQueueAfterFailure(@),
                             !.done = @ \cup {Head(alert_cycle.queue)},
                             !.failed = @ \cup {Head(alert_cycle.queue)}]
    ELSE IF ev.pc = "idle"
    THEN [alert_cycle EXCEPT !.queue = Tail(@),
                             !.done = @ \cup {Head(alert_cycle.queue)}]
    ELSE alert_cycle

\* check_asset_against_rules, one rule of the asset at the head of the queue
RaceBatchRule ==
    /\ alert_cycle.pc = "check"
    /\ alert_cycle.queue # << >>
    /\ save_race.batch.pc \in {"idle", "rules"}
    /\ LET a     == Head(alert_cycle.queue)
           rules == IF save_race.batch.pc = "idle"
                    THEN RulesForType(alert_rules, AssetType(a))
                    ELSE save_race.batch.rules
           ev    == [EvalIdle EXCEPT !.pc = "rules", !.asset = a, !.rules = rules]
       IN  IF rules = << >>
           THEN /\ alert_cycle' = BatchAdvance(EvalIdle, FALSE)
                /\ UNCHANGED <<alerts, save_race, first_true>>
           ELSE LET rule == Head(rules)
                    val  == alert_cycle.state[a][rule.metric]
                    st   == CheckRuleBatch(
                               [al |-> alerts, tr |-> << >>, exc |-> FALSE,
                                obs |-> {}, failed |-> {}, kept |-> {}],
                               a, rule, alert_cycle.state[a], {})
                IN  IF val.kind # "none" /\ is_triggered(rule, val)
                       /\ ~FormatRaises(rule)
                    THEN \* save_alert, lines 208-209
                         /\ save_race' = [save_race EXCEPT !.batch =
                               [ev EXCEPT !.pc = "insert",
                                          !.found = HasActive(alerts, a, rule.alert_name)]]
                         /\ first_true' = Observed(a, {rule.alert_name}, now)
                         /\ UNCHANGED <<alerts, alert_cycle>>
                    ELSE /\ alerts' = st.al
                         /\ first_true' = Observed(a, st.obs, now)
                         /\ save_race' = [save_race EXCEPT !.batch =
                               IF st.exc THEN EvalIdle ELSE AfterRule(ev)]
                         /\ alert_cycle' = BatchAdvance(save_race'.batch, st.exc)
    /\ last' = [Idle EXCEPT !.op = "race_batch"]
    /\ UNCHANGED <<now, alert_configurations, sensor_readings, calculated_data,
                   digital_twin_state, ALERT_RULES, potential_alerts_tracker,
                   alert_rules, calc_cycle>>

\* save_alert, lines 210-226, of the batch evaluator
RaceBatchInsert ==
    /\ save_race.batch.pc = "insert"
    /\ LET ev == save_race.batch
       IN  /\ alerts' = save_alert_insert(alerts, ev.asset,
                                          Head(ev.rules).alert_name, ev.found)
           /\ Len(alerts') <= MaxAlerts
           /\ save_race' = [save_race EXCEPT !.batch = AfterRule(ev)]
           /\ alert_cycle' = BatchAdvance(save_race'.batch, FALSE)
    /\ last' = [Idle EXCEPT !.op = "race_batch"]
    /\ UNCHANGED <<now, alert_configurations, sensor_readings, calculated_data,
                   digital_twin_state, ALERT_RULES, potential_alerts_tracker,
                   alert_rules, calc_cycle, first_true>>

\* process_message_type up to the call of check_and_process_asset_alerts
RaceMsgArrive(a, metric, val, ts) ==
    /\ save_race.msg.pc = "idle"
    /\ a \in DOMAIN digital_twin_state
    /\ AssetType(a) = "StorageTank"
    /\ metric = "level"
    /\ val.kind = "num"
    /\ digital_twin_state' = [digital_twin_state EXCEPT
                                ![a] = update_iot_level(@, a, val.v)]
    /\ sensor_readings' = save_sensor_reading(sensor_readings, ts, a,
                              "MQTT_sensor", metric, val, FALSE)
    /\ LET rules == RulesForType(ALERT_RULES, AssetType(a))
       IN  save_race' = [save_race EXCEPT !.msg =
              IF rules = << >> THEN EvalIdle
              ELSE [EvalIdle EXCEPT !.pc = "rules", !.asset = a,
                                    !.rules = rules, !.t = now]]
    /\ last' = [Idle EXCEPT !.op = "race_msg"]
    /\ UNCHANGED <<now, alert_configurations, alerts, calculated_data, ALERT_RULES,
                   potential_alerts_tracker, alert_rules, alert_cycle, calc_cycle,
                   first_true>>

\* the rule at the head of ev.rules makes check_and_process_asset_alerts
\* call save_alert
CallsSaveAlert(ev, rule, val) ==
    LET key == AlertKey(ev.asset, rule.alert_name)
    IN  /\ val.kind # "none"
        /\ is_primary_trigger_condition_met(rule, val)
        /\ ~FormatRaises(rule)
        /\ rule.duration_seconds # Null =>
              /\ key \in DOMAIN potential_alerts_tracker
              /\ ~potential_alerts_tracker[key].notified_active
              /\ DurationElapsed(potential_alerts_tracker[key], rule, ev.t)

\* check_and_process_asset_alerts, one rule
RaceMsgRule ==
    /\ save_race.msg.pc = "rules"
    /\ LET ev   == save_race.msg
           a    == ev.asset
           rule == Head(ev.rules)
           val  == get_asset_metric_value(digital_twin_state[a], AssetType(a),
                                          rule.metric)
           st   == CheckRule([al |-> alerts, tr |-> potential_alerts_tracker,
                              exc |-> FALSE, obs |-> {}, failed |-> {}, kept |-> {}],
                             a, rule, val, ev.t, {})
       IN  IF CallsSaveAlert(ev, rule, val)
           THEN \* save_alert, lines 208-209
                /\ save_race' = [save_race EXCEPT !.msg =
                      [ev EXCEPT !.pc = "insert",
                                 !.found = HasActive(alerts, a, rule.alert_name)]]
                /\ first_true' = Observed(a, {rule.alert_name}, now)
                /\ UNCHANGED <<alerts, potential_alerts_tracker>>
           ELSE /\ alerts' = st.al
                /\ potential_alerts_tracker' = st.tr
                /\ first_true' = Observed(a, st.obs, now)
                /\ save_race' = [save_race EXCEPT !.msg =
                      IF st.exc THEN EvalIdle ELSE AfterRule(ev)]
    /\ last' = [Idle EXCEPT !.op = "race_msg"]
    /\ UNCHANGED <<now, alert_configurations, sensor_readings, calculated_data,
                   digital_twin_state, ALERT_RULES, alert_rules, alert_cycle, calc_cycle>>

\* save_alert, lines 210-226, of the message evaluator, then line 181
RaceMsgInsert ==
    /\ save_race.msg.pc = "insert"
    /\ LET ev   == save_race.msg
           rule == Head(ev.rules)
           key  == AlertKey(ev.asset, rule.alert_name)
       IN  /\ alerts' = save_alert_insert(alerts, ev.asset, rule.alert_name, ev.found)
           /\ Len(alerts') <= MaxAlerts
           /\ potential_alerts_tracker' =
                 IF rule.duration_seconds # Null
                 THEN [potential_alerts_tracker EXCEPT ![key].notified_active = TRUE]
                 ELSE potential_alerts_tracker
           /\ save_race' = [save_race EXCEPT !.msg = AfterRule(ev)]
    /\ last' = [Idle EXCEPT !.op = "race_msg"]
    /\ UNCHANGED <<now, alert_configurations, sensor_readings, calculated_data,
                   digital_twin_state, ALERT_RULES, alert_rules, alert_cycle,
                   calc_cycle, first_true>>

\* levels on either side of both thresholds
RaceLevels == {13280, 14720}

RaceMsgStep ==
    \E l \in RaceLevels, ts \in MsgTimes : RaceMsgArrive("T1", "level", Num(l), ts)

\* one level reading of the tank reaches the data processor
RaceLevelStep ==
    \E l \in RaceLevels : DataProcessorOnMessage("T1", "level_mm", Num(l), 1, FALSE)

NextRace ==
    \/ EditRules \/ RaceLevelStep \/ CalcTank("T1")
    \/ AlertCycleStart \/ RaceBatchRule \/ RaceBatchInsert \/ AlertCycleFinish
    \/ RaceMsgStep \/ RaceMsgRule \/ RaceMsgInsert

SpecRace == InitMsg /\ [][NextRace]_vars

-----------------------------------------------------------------------------
(* save_calculated_data called directly *)

\* values and metrics the callers hand to save_calculated_data
StoreValues == {100, 200}

StoreMetrics == {"volume_gov", "volume_gsv"}

SaveCalculatedData(t, a, m, v, dberr) ==
    /\ calculated_data' = save_calculated_data(calculated_data, t, a, m, v, dberr)
    /\ last' = [Idle EXCEPT !.op = "save_calculated", !.asset = a,
                            !.failed = IF dberr THEN {m} ELSE {},
                            !.arg = <<t, m, v>>]
    /\ UNCHANGED <<now, alert_configurations, alerts, sensor_readings,
                   digital_twin_state, ALERT_RULES, potential_alerts_tracker,
                   alert_rules, alert_cycle, calc_cycle, save_race, first_true>>

SaveCalculatedStep ==
    \E t \in 1..MaxDataTime, m \in StoreMetrics, v \in StoreValues, dberr \in BOOLEAN :
        SaveCalculatedData(t, "T1", m, v, dberr)

NextStore == SaveCalculatedStep

SpecStore == InitCalc /\ [][NextStore]_vars

-----------------------------------------------------------------------------
(* Ingestion-path calculator (core/calculations.py)                        *)
(*                                                                         *)
(* Numbers carry their Python type: kind "num" is a float, kind "dec" a    *)
(* Decimal; float and Decimal do not mix in arithmetic (TypeError).        *)
(* Volumes are in 1/100 litre, temperatures in degrees C, densities in     *)
(* kg/m3, alpha in 1/1000000 per degree, the correction factor in 1/100000. *)
(* The fixed-point results are the Decimal ones exactly at the reference    *)
(* temperature (exponent 0) and within 1/10000 of them away from it.       *)

Dec(n) == [kind |-> "dec", v |-> n]

STANDARD_REFERENCE_TEMPERATURE_CELSIUS == 20

\* quotient of integers with the sign of the exact quotient; b # 0
SignedDiv(a, b) ==
    IF b > 0 THEN (IF a >= 0 THEN a \div b ELSE -((-a) \div b))
    ELSE (IF a >= 0 THEN -(a \div (-b)) ELSE (-a) \div (-b))

\* ALPHA at 15 C; Null stands for the ValueError on a density <= 0
calculate_alpha_for_table54b(density_at_15c) ==
    LET den15_sq == density_at_15c * density_at_15c
    IN  IF density_at_15c <= 0 THEN Null
        ELSE IF density_at_15c <= 770
        THEN (346422780 + 438840 * density_at_15c) \div den15_sq
        ELSE IF density_at_15c < 839
        THEN 594541800 \div den15_sq
        ELSE (186969600 + 486180 * density_at_15c) \div den15_sq

\* the for loop of convert_density_20c_to_15c with n iterations left; the
\* result is [raised, v]: raised when calculate_alpha_for_table54b raises or
\* the division is by zero
RECURSIVE ConvertLoop(_, _, _)
ConvertLoop(density_at_20c, guess, n) ==
    IF n = 0 THEN [raised |-> FALSE, v |-> guess]
    ELSE LET alpha == calculate_alpha_for_table54b(guess)
             den   == 1000000 - 5 * alpha
             calc  == SignedDiv(density_at_20c * 1000, den \div 1000)
         IN  IF alpha = Null \/ den \div 1000 = 0 THEN [raised |-> TRUE, v |-> 0]
             ELSE IF calc = guess THEN [raised |-> FALSE, v |-> guess]
             ELSE ConvertLoop(density_at_20c, calc, n - 1)

convert_density_20c_to_15c(density_at_20c) ==
    ConvertLoop(density_at_20c, (density_at_20c * 1005) \div 1000, 5)

\* math.exp of x (in 1/1000000, |x| small) by its series, in 1/1000000
Exp6(x) ==
    1000000 + x + SignedDiv(x * x, 2000000)
            + SignedDiv(SignedDiv(x * x, 1000000) * x, 6000000)

\* the correction factor in 1/100000, or Null for the None returned when
\* ALPHA raises; temperature is the Decimal's number
calculate_precise_vcf_c_table54b(observed_temperature_c, density_at_15c) ==
    LET alpha   == calculate_alpha_for_table54b(density_at_15c)
        delta_t == observed_temperature_c - STANDARD_REFERENCE_TEMPERATURE_CELSIUS
        ad      == alpha * delta_t
        x       == -(ad + SignedDiv(8 * SignedDiv(ad * ad, 1000), 10000))
    IN  IF alpha = Null THEN Null
        ELSE RoundHalfEven(Exp6(x), 10)

\* arguments are typed values; the result is NoneV or a Decimal in 1/100 litre
calculate_precise_gsv(observed_volume, observed_temperature_c, density_at_20c) ==
    IF \/ observed_volume.kind = "none"
       \/ observed_temperature_c.kind = "none"
       \/ density_at_20c.kind = "none"
    THEN NoneV
    \* line 62: density_at_20c * Decimal('1.005') on a float
    ELSE IF density_at_20c.kind # "dec" THEN NoneV
    ELSE LET d15 == convert_density_20c_to_15c(density_at_20c.v)
         IN  IF d15.raised THEN NoneV
             \* line 46: observed_temperature_c - Decimal(...) on a float
             ELSE IF observed_temperature_c.kind # "dec" THEN NoneV
             ELSE LET vcf == calculate_precise_vcf_c_table54b(
                                 observed_temperature_c.v, d15.v)
                  IN  IF vcf = Null THEN NoneV
                      \* line 92: observed_volume * vcf on a float
                      ELSE IF observed_volume.kind # "dec" THEN NoneV
                      ELSE Dec(RoundHalfEven(observed_volume.v * vcf, 100000))

-----------------------------------------------------------------------------
(* Processing service: on_message, from the bytes of the message on        *)

\* settings.MQTT_BASE_TOPIC, as its "/"-separated segments
MQTT_BASE_TOPIC == <<"demo", "depot", "dev">>

\* topic.split(base + "/")[1].split("/") for a topic below the base
remaining_parts(topic, base) == SubSeq(topic, Len(base) + 1, Len(topic))

\* What json.loads and BaseMqttPayload make of the payload bytes:
\*   "bad_json"       not JSON                     (JSONDecodeError, caught)
\*   "no_timestamp"   timestamp_utc absent or null (ValidationError, caught)
\*   "bad_timestamp"  a string that is not ISO 8601 (ValidationError, caught)
\*   "num_timestamp"  a number: the validator raises TypeError, which is not
\*                    a ValidationError and leaves on_message
\*   "ok"             a valid payload
PayloadKinds == {"ok", "bad_json", "no_timestamp", "bad_timestamp", "num_timestamp"}

Message(p, topic, val, ts) == [payload |-> p, topic |-> topic, value |-> val, ts |-> ts]

\* the result of process_message_type when it returns before changing anything
Untouched ==
    [dts |-> digital_twin_state, sr |-> sensor_readings, cd |-> calculated_data,
     al |-> alerts, tr |-> potential_alerts_tracker, obs |-> {}, failed |-> {},
     kept |-> {}, exc |-> FALSE, updated |-> FALSE, stored |-> FALSE,
     evaluated |-> FALSE, dup |-> FALSE]

\* lines 231-249: the GSV chain of a tank after a level or temperature message
GsvChain(cd, obj, a, ts) ==
    LET d20 == TankMeta(a).density_at_20c_kg_m3
        gsv == calculate_precise_gsv(obj.current_volume_litres,
                                     obj.current_temperature,
                                     IF d20 = Null THEN NoneV ELSE Dec(d20))
    IN  IF /\ obj.current_volume_litres.kind # "none"
           /\ obj.current_temperature.kind # "none"
           /\ d20 # Null
           /\ gsv.kind # "none"
        THEN [cd  |-> save_calculated_data(cd, ts, a, "gsv_litres_precise", gsv.v, FALSE),
              obj |-> [obj EXCEPT !.gross_standard_volume_litres = gsv]]
        ELSE [cd |-> cd, obj |-> obj]

\* rderr: save_sensor_reading meets a storage error; its False is not looked at
process_message_type(a, metric, val, ts, data_type, rderr, dberr) ==
    IF a \notin DOMAIN digital_twin_state THEN Untouched
    ELSE IF AssetType(a) # "StorageTank" THEN Untouched
    ELSE IF metric \notin {"level", "temperature"} THEN Untouched
    \* float(value) raises before anything is updated; caught at line 252
    ELSE IF val.kind # "num" THEN Untouched
    ELSE
        LET obj == IF metric = "level"
                   THEN update_iot_level(digital_twin_state[a], a, val.v)
                   ELSE update_temperature(digital_twin_state[a], val.v)
            src == "MQTT_" \o data_type
            sr2 == save_sensor_reading(sensor_readings, ts, a, src, metric, val, rderr)
            g   == GsvChain(calculated_data, obj, a, ts)
            st  == check_and_process_asset_alerts(alerts, potential_alerts_tracker,
                                                  ALERT_RULES, a, g.obj, now, dberr)
        IN  [dts |-> [digital_twin_state EXCEPT ![a] = g.obj],
             sr |-> sr2, cd |-> g.cd, al |-> st.al, tr |-> st.tr, obs |-> st.obs,
             failed |-> st.failed \cup (IF rderr THEN {"reading"} ELSE {}),
             kept |-> st.kept, exc |-> st.exc, updated |-> TRUE,
             stored |-> \E r \in sr2 : SameReadingKey(r, ts, a, src, metric),
             evaluated |-> TRUE,
             dup |-> \E r \in sensor_readings : SameReadingKey(r, ts, a, src, metric)]

\* how on_message ends: "raised" when an exception leaves the callback
Outcome(msg) ==
    IF msg.payload \in {"bad_json", "no_timestamp", "bad_timestamp"} THEN "dropped"
    ELSE IF msg.payload = "num_timestamp" THEN "raised"
    ELSE IF Len(remaining_parts(msg.topic, MQTT_BASE_TOPIC)) < 4 THEN "dropped"
    ELSE "processed"

\* an exception that left on_message has ended the thread of loop_start()
\* (line 331): no callback runs until the service is started again
LoopStopped == last.arg # << >> /\ last.arg[2] = "raised"

on_message(msg, rderr, dberr) ==
    /\ ~LoopStopped
    /\ LET parts == remaining_parts(msg.topic, MQTT_BASE_TOPIC)
           st == IF Outcome(msg) = "processed"
                 THEN process_message_type(parts[3], parts[4], msg.value, msg.ts,
                                           parts[1], rderr, dberr)
                 ELSE Untouched
       IN  /\ Len(st.al) <= MaxAlerts
           /\ digital_twin_state' = st.dts
           /\ sensor_readings' = st.sr
           /\ calculated_data' = st.cd
           /\ alerts' = st.al
           /\ potential_alerts_tracker' = st.tr
           /\ first_true' = IF st.evaluated THEN Observed(parts[3], st.obs, now)
                            ELSE first_true
           /\ last' = [op |-> "on_message",
                       asset |-> IF Outcome(msg) = "processed" THEN parts[3] ELSE "",
                       failed |-> st.failed, exc |-> st.exc, saves |-> 0,
                       obs |-> st.obs, kept |-> st.kept,
                       arg |-> <<msg, Outcome(msg), st.updated, st.stored, st.evaluated,
                                st.dup>>]
    /\ UNCHANGED <<now, alert_configurations, ALERT_RULES, alert_rules, alert_cycle,
                   calc_cycle, save_race>>

\* the clock advances between messages; the record of the last message stays
IngestTick ==
    /\ now < MaxTime
    /\ now' = now + 1
    /\ last' = [last EXCEPT !.op = "tick"]
    /\ UNCHANGED <<alert_configurations, alerts, sensor_readings, calculated_data,
                   digital_twin_state, ALERT_RULES, potential_alerts_tracker,
                   alert_rules, alert_cycle, calc_cycle, save_race, first_true>>

Topic(rest) == MQTT_BASE_TOPIC \o rest

\* payload values of the messages
IngestLevels == {13280}

\* messages the broker delivers
Messages ==
    {Message("ok", Topic(<<"sensor", "x", "T1", "level">>), Num(l), 1) : l \in IngestLevels}
    \cup {Message("ok", Topic(<<"sensor", "x", "T1", "level">>), StrV, 1),
          Message("ok", Topic(<<"sensor", "x", "T1", "temperature">>), Num(20), 1),
          Message("ok", Topic(<<"sensor", "x", "P1", "power">>), Num(40), 1),
          Message("ok", Topic(<<"sensor", "x", "T9", "level">>), Num(13280), 1),
          Message("ok", Topic(<<"sensor", "T1", "level", "data">>), Num(13280), 1),
          Message("ok", Topic(<<"sensor", "T1">>), Num(13280), 1)}
    \cup {Message(p, Topic(<<"sensor", "x", "T1", "level">>), Num(13280), 1) :
            p \in PayloadKinds \ {"ok"}}

MessageStep == \E msg \in Messages, rderr \in BOOLEAN : on_message(msg, rderr, {})

NextIngest == IngestTick \/ MessageStep \/ Restart

SpecIngest == InitMsg /\ [][NextIngest]_vars

-----------------------------------------------------------------------------
(* Topics: what the simulator publishes and what the two callbacks read    *)

\* values of settings.MQTT_BASE_TOPIC (an environment setting)
BaseTopics == {<<"demo", "depot", "dev">>, <<"depot", "dev">>, <<"depot">>}

\* sensor_simulator: f"{MQTT_BASE_TOPIC}/sensor/{asset_id}/{metric}/data"
PublishedTopic(base, a, m) == base \o <<"sensor", a, m, "data">>

NotParsed == [ok |-> FALSE, asset_id |-> "", metric |-> ""]

\* processing_service.on_message, lines 271-275
ProcessingTopicParse(topic, base) ==
    LET parts == remaining_parts(topic, base)
    IN  IF Len(parts) < 4 THEN NotParsed
        ELSE [ok |-> TRUE, asset_id |-> parts[3], metric |-> parts[4]]

\* data_processor.on_message, lines 70-78
DataProcessorTopicParse(topic) ==
    IF Len(topic) = 7 /\ topic[4] = "sensor"
    THEN [ok |-> TRUE, asset_id |-> topic[5], metric |-> topic[6]]
    ELSE NotParsed

TopicMetrics == {"level_mm", "temperature"}

TopicValues == {13280, 14720}

\* one published message reaches both callbacks: the data processor stores
\* the reading under the asset and metric it read from the topic; the
\* processing service hands the ones it read to process_message_type
TopicDelivery(a, m, val, ts) ==
    LET base  == last.arg[1]
        topic == PublishedTopic(base, a, m)
        dp    == DataProcessorTopicParse(topic)
        ps    == ProcessingTopicParse(topic, base)
    IN  /\ sensor_readings' =
              IF dp.ok
              THEN save_sensor_reading(sensor_readings, ts, dp.asset_id,
                       "sensor_" \o dp.asset_id \o "_" \o dp.metric, dp.metric,
                       val, FALSE)
              ELSE sensor_readings
        /\ last' = [Idle EXCEPT !.op = "deliver", !.asset = a,
                                !.arg = <<base, m, dp, ps>>]
        /\ UNCHANGED <<now, alert_configurations, alerts, calculated_data,
                       digital_twin_state, ALERT_RULES, potential_alerts_tracker,
                       alert_rules, alert_cycle, calc_cycle, save_race, first_true>>

TopicStep ==
    \E m \in TopicMetrics, l \in TopicValues, ts \in 1..MaxDataTime :
        TopicDelivery("T1", m, Num(l), ts)

\* the services of one deployment share one base topic
InitTopic ==
    /\ now = 0
    /\ alert_configurations = << >>
    /\ alerts = << >>
    /\ sensor_readings = {}
    /\ calculated_data = {}
    /\ digital_twin_state = load_assets_from_db
    /\ ALERT_RULES = << >>
    /\ potential_alerts_tracker = << >>
    /\ alert_rules = << >>
    /\ alert_cycle = CycleIdle
    /\ calc_cycle = CycleIdle
    /\ save_race = RaceIdle
    /\ first_true = [p \in Pairs |-> Null]
    /\ \E base \in BaseTopics : last = [Idle EXCEPT !.op = "configured", !.arg = <<base>>]

NextTopic == TopicStep

SpecTopic == InitTopic /\ [][NextTopic]_vars

-----------------------------------------------------------------------------
(* calculate_gov_from_strapping applied to strapping tables                *)

TableLevels == {1000, 2000, 3000}

TableVolumes == {0, 500, 1500, 1700}

\* strapping_data dicts: levels in mm -> volume in litres, volumes not
\* decreasing with the level
StrappingTables ==
    UNION { {t \in [ls -> TableVolumes] :
                \A x \in ls, y \in ls : x <= y => t[x] <= t[y]} :
            ls \in (SUBSET TableLevels) \ {{}} }

GovLevels == {0, 500, 1000, 1250, 1500, 2000, 2400, 3000, 3500, 4000}

\* the state every pure-function specification starts from, with the
\* observation record given
StartedWith(l) ==
    /\ now = 0
    /\ alert_configurations = << >>
    /\ alerts = << >>
    /\ sensor_readings = {}
    /\ calculated_data = {}
    /\ digital_twin_state = load_assets_from_db
    /\ ALERT_RULES = << >>
    /\ potential_alerts_tracker = << >>
    /\ alert_rules = << >>
    /\ alert_cycle = CycleIdle
    /\ calc_cycle = CycleIdle
    /\ save_race = RaceIdle
    /\ first_true = [p \in Pairs |-> Null]
    /\ last = l

UnchangedButLast ==
    UNCHANGED <<now, alert_configurations, alerts, sensor_readings,
                calculated_data, digital_twin_state, ALERT_RULES,
                potential_alerts_tracker, alert_rules, alert_cycle,
                calc_cycle, save_race, first_true>>

\* one call; last.arg = <<table, level, gov, level of the call before, its gov>>
GovStep ==
    \E level_mm \in GovLevels :
        LET table == last.arg[1]
        IN  /\ last' = [last EXCEPT
                  !.op = "gov",
                  !.arg = <<table, level_mm,
                            calculate_gov_from_strapping(level_mm, table),
                            last.arg[2], last.arg[3]>>]
            /\ UnchangedButLast

InitGov ==
    \E table \in StrappingTables :
        StartedWith([Idle EXCEPT !.op = "table", !.arg = <<table, Null, Null, Null, Null>>])

NextGov == GovStep

SpecGov == InitGov /\ [][NextGov]_vars

-----------------------------------------------------------------------------
(* The two GSV calculators applied to the same volume, temperature, density *)

\* volumes in 1/100 litre
GsvVolumes == {0, 5000, 10000, 15000, 20000}

GsvTemperatures == {15, 20, 30}

\* positive densities at 20 C, kg/m3
GsvDensities == {40, 43, 770, 850}

\* "num": Python floats, as CalculationService.process_tank and
\* process_message_type hold them; "dec": Decimal, as the signature of
\* calculate_precise_gsv names them
ArgKinds == {"num", "dec"}

\* last.arg = <<gov, temperature, density, kind, vcf and gsv of the batch
\* calculator, gsv of the ingestion-path calculator>>
GsvStep ==
    \E gov \in GsvVolumes, t \in GsvTemperatures, dens \in GsvDensities,
       kind \in ArgKinds :
        LET typed(n) == [kind |-> kind, v |-> n]
        IN  /\ last' = [Idle EXCEPT
                  !.op = "gsv",
                  !.arg = <<gov, t, dens, kind,
                            get_vcf(t),
                            calculate_gsv(gov, t),
                            calculate_precise_gsv(typed(gov), typed(t), typed(dens))>>]
            /\ UnchangedButLast

InitGsv == StartedWith(Idle)

NextGsv == GsvStep

SpecGsv == InitGsv /\ [][NextGsv]_vars

-----------------------------------------------------------------------------
(* The two evaluators' trigger decision on the same stored rule and value  *)

\* condition_type as a rule row can spell the six comparators: the symbols
\* populate_rules writes, and the words check_and_process_asset_alerts reads
ComparatorSpellings ==
    {">", "<", ">=", "<=", "==", "!=", "gt", "lt", "gte", "lte", "eq", "ne"}

\* level_percentage in 1/100 percent
CompareValues == {8400, 9000, 9200}

CompareThresholds == {8400, 9000, 9500}

\* the rule row is loaded through to_rule_dict and handed to both evaluators;
\* last.arg = <<condition_type, value, threshold, batch, message-driven>>
CompareStep ==
    \E cond \in ComparatorSpellings, v \in CompareValues, thr \in CompareThresholds :
        LET rule == to_rule_dict(Rule("TANK_LEVEL_HIGH", cond, thr, Null, Null, GoodTemplate))
        IN  /\ last' = [Idle EXCEPT
                  !.op = "compare",
                  !.arg = <<cond, v, thr,
                            is_triggered(rule, Num(v)),
                            is_primary_trigger_condition_met(rule, Num(v))>>]
            /\ UnchangedButLast

InitCompare == StartedWith(Idle)

NextCompare == CompareStep

SpecCompare == InitCompare /\ [][NextCompare]_vars

-----------------------------------------------------------------------------
(* Rules edited in storage while the services run                          *)

\* an operator disables a rule row of alert_configurations
DisableRule ==
    /\ \E i \in DOMAIN alert_configurations :
          /\ alert_configurations[i].is_enabled
          /\ alert_configurations' =
                [alert_configurations EXCEPT ![i].is_enabled = FALSE]
    /\ last' = [Idle EXCEPT !.op = "disable"]
    /\ UNCHANGED <<now, alerts, sensor_readings, calculated_data, digital_twin_state,
                   ALERT_RULES, potential_alerts_tracker, alert_rules, alert_cycle,
                   calc_cycle, save_race, first_true>>

NextRules == UpdateStep \/ EvaluateStep \/ EvaluateBatchStep \/ DisableRule

SpecRules == InitEval /\ [][NextRules]_vars

-----------------------------------------------------------------------------
(* Rules of two asset types, one of them disabled                          *)

\* a tank rule, a disabled tank rule and a pump rule, in the spelling the
\* batch evaluator reads or in the one the message evaluator reads
ScopeRules(high, low, over) ==
    << Rule("TANK_LEVEL_HIGH", high, 9000, Null, Null, GoodTemplate),
       [Rule("TANK_LEVEL_LOW", low, 8400, Null, Null, GoodTemplate)
            EXCEPT !.is_enabled = FALSE],
       [Rule("PUMP_POWER_HIGH", over, 9000, Null, Null, GoodTemplate)
            EXCEPT !.asset_type = "Pump", !.metric_name = "power"] >>

ScopeConfigs == {ScopeRules(">=", "<=", ">"), ScopeRules("gte", "lte", "gt")}

ScopeValues == {8300, 9200}

\* DataPoint.update on the power of pump a
PumpPowerUpdate(a, val) ==
    /\ AssetType(a) = "Pump"
    /\ digital_twin_state' = [digital_twin_state EXCEPT ![a].current_power = val]
    /\ last' = [Idle EXCEPT !.op = "update", !.asset = a]
    /\ UNCHANGED <<now, alert_configurations, alerts, sensor_readings, calculated_data,
                   ALERT_RULES, potential_alerts_tracker, alert_rules, alert_cycle,
                   calc_cycle, save_race, first_true>>

ScopeUpdateStep ==
    \E v \in ScopeValues :
        DataPointUpdate("T1", Num(v)) \/ PumpPowerUpdate("P1", Num(v))

ScopeEvaluateStep == \E a \in {"T1", "P1"} : Evaluate(a, {})

ScopeEvaluateBatchStep ==
    \E a \in {"T1", "P1"}, v \in ScopeValues : EvaluateBatch(a, Num(v), {})

InitScope ==
    /\ now = 0
    /\ alert_configurations \in ScopeConfigs
    /\ alerts = << >>
    /\ sensor_readings = {}
    /\ calculated_data = {}
    /\ digital_twin_state = load_assets_from_db
    /\ ALERT_RULES = load_alert_rules_from_db(alert_configurations)
    /\ potential_alerts_tracker = << >>
    /\ alert_rules = << >>
    /\ alert_cycle = CycleIdle
    /\ calc_cycle = CycleIdle
    /\ save_race = RaceIdle
    /\ first_true = [p \in Pairs |-> Null]
    /\ last = Idle

NextScope == ScopeUpdateStep \/ ScopeEvaluateStep \/ ScopeEvaluateBatchStep

SpecScope == InitScope /\ [][NextScope]_vars

-----------------------------------------------------------------------------
(* Stopping the calculation service.  CalculationService.start is          *)
(* `while True` around run_cycle and the module installs no signal handler *)
(* and reads no flag: the service is stopped by SIGTERM (the process ends  *)
(* where it stands) or SIGINT (KeyboardInterrupt, which `except Exception` *)
(* does not catch).  Either arrives between two statements of the cycle.   *)

\* calculated_data when process_tank is cut off after its first
\* save_calculated_data (line 98) and before the second (line 109)
process_tank_cut_short(cd, sr, a) ==
    LET ll  == get_latest_sensor_reading(sr, a, "level_mm")
        lvl == CHOOSE r \in ll : TRUE
    IN  save_calculated_data(cd, lvl.time, a, "level_percentage",
                             (lvl.value.v * 10000) \div 16000, FALSE)

\* process_tank of asset a would get as far as its first save
ReachesFirstSave(cd, sr, a) ==
    LET ll == get_latest_sensor_reading(sr, a, "level_mm")
    IN  /\ AssetType(a) = "StorageTank"
        /\ ll # {}
        /\ ~UpToDate(cd, sr, a, "level_percentage", "level_mm")
        /\ (CHOOSE r \in ll : TRUE).value.kind = "num"

\* the signal arrives between two assets of the cycle or while start() sleeps
ShutdownBetweenAssets ==
    /\ calc_cycle.pc \in {"idle", "run"}
    /\ calc_cycle' = [calc_cycle EXCEPT !.pc = "exited"]
    /\ last' = [Idle EXCEPT !.op = "shutdown"]
    /\ UNCHANGED <<now, alert_configurations, alerts, sensor_readings, calculated_data,
                   digital_twin_state, ALERT_RULES, potential_alerts_tracker,
                   alert_rules, alert_cycle, save_race, first_true>>

\* the signal arrives inside process_tank of the asset at the head of the queue
ShutdownInsideAsset ==
    /\ calc_cycle.pc = "run"
    /\ calc_cycle.queue # << >>
    /\ LET a == Head(calc_cycle.queue)
       IN  /\ ReachesFirstSave(calculated_data, sensor_readings, a)
           /\ calculated_data' = process_tank_cut_short(calculated_data, sensor_readings, a)
           /\ calc_cycle' = [calc_cycle EXCEPT !.pc = "exited"]
           /\ last' = [Idle EXCEPT !.op = "shutdown", !.asset = a, !.saves = 1]
    /\ UNCHANGED <<now, alert_configurations, alerts, sensor_readings,
                   digital_twin_state, ALERT_RULES, potential_alerts_tracker,
                   alert_rules, alert_cycle, save_race, first_true>>

ShutdownInputs ==
    { <<"T1", "level_mm", Num(14720)>>, <<"T1", "level_mm", Num(13280)>>,
      <<"T1", "temperature", Num(20)>>, <<"T2", "level_mm", Num(13280)>>,
      <<"P1", "pump_status", Num(1)>> }

ShutdownDataStep ==
    \E inp \in ShutdownInputs, ts \in 1..MaxDataTime :
        /\ (inp[1] = "T1" /\ inp[2] = "level_mm") \/ ts = 1
        /\ DataProcessorOnMessage(inp[1], inp[2], inp[3], ts, FALSE)

NextShutdown ==
    \/ ShutdownDataStep
    \/ CalcCycleStart
    \/ CalcProcessAsset({})
    \/ CalcCycleFinish
    \/ ShutdownBetweenAssets
    \/ ShutdownInsideAsset

SpecShutdown == InitCalc /\ [][NextShutdown]_vars

-----------------------------------------------------------------------------
(* process_tank on a tank with or without strapping table, temperature     *)
(* reading and density                                                     *)

PrereqTables == {<< >>, StrappingTable("T1")}

PrereqDensities == {Null, 850}

PrereqInputs ==
    { <<"level_mm", Num(14720)>>, <<"level_mm", Num(13280)>>,
      <<"temperature", Num(30)>> }

PrereqDataStep ==
    \E inp \in PrereqInputs, ts \in 1..MaxDataTime :
        /\ inp[1] = "level_mm" \/ ts = 1
        /\ DataProcessorOnMessage("T1", inp[1], inp[2], ts, FALSE)

\* last.arg = <<a table was found, density of tank_meta, a temperature
\* reading exists, time of the level reading processed, skipped as up to date>>
PrereqProcessStep ==
    \E tbl \in PrereqTables, d20 \in PrereqDensities :
        LET ll == get_latest_sensor_reading(sensor_readings, "T1", "level_mm")
            st == process_tank_with(calculated_data, sensor_readings, "T1", tbl, d20, {})
        IN  /\ ll # {}
            /\ calculated_data' = st.cd
            /\ last' = [Idle EXCEPT
                  !.op = "process_tank", !.asset = "T1",
                  !.exc = st.exc, !.saves = st.saves,
                  !.arg = <<DOMAIN tbl # {}, d20,
                            get_latest_sensor_reading(sensor_readings, "T1", "temperature") # {},
                            (CHOOSE r \in ll : TRUE).time, st.skipped>>]
            /\ UNCHANGED <<now, alert_configurations, alerts, sensor_readings,
                           digital_twin_state, ALERT_RULES, potential_alerts_tracker,
                           alert_rules, alert_cycle, calc_cycle, save_race, first_true>>

NextPrereq == PrereqDataStep \/ PrereqProcessStep

SpecPrereq == InitCalc /\ [][NextPrereq]_vars

-----------------------------------------------------------------------------
(* MassBalanceCalculator.reconcile_transfer; masses in kg, volumes in      *)
(* litres, densities in kg/m3                                              *)

MaxOf(S) == CHOOSE x \in S : \A y \in S : y <= x

Abs(x) == IF x < 0 THEN -x ELSE x

\* a variant that leaves the metered mass out of the reference
reconcile_transfer_tank_reference(source_before, source_after, dest_before, dest_after, metered_volume_litres, metered_density_kg_m3) ==
    LET source_change == source_before.mass_kg - source_after.mass_kg
        dest_change   == dest_after.mass_kg - dest_before.mass_kg
        discrepancy   == dest_change - source_change
        reference_mass == MaxOf({source_change, dest_change, 1})
    IN  [discrepancy_kg |-> discrepancy,
         reference_mass |-> reference_mass,
         metered_mass_kg |-> source_change,
         status |-> IF Abs(discrepancy) * 200 <= reference_mass THEN "BALANCED"
                    ELSE IF discrepancy > 0 THEN "GAIN" ELSE "LOSS"]

\* the arguments are MassResult records; None and 0 are both false in
\* `if metered_volume_litres and metered_density_kg_m3`.
\* discrepancy_percent <= ACCEPTABLE_DISCREPANCY_PERCENT (0.5) is
\* abs(discrepancy) * 200 <= reference_mass
reconcile_transfer(source_before, source_after, dest_before, dest_after, metered_volume_litres, metered_density_kg_m3) ==
    LET source_change == source_before.mass_kg - source_after.mass_kg
        dest_change   == dest_after.mass_kg - dest_before.mass_kg
        given(x)      == x # Null /\ x # 0
        metered_mass  ==
            IF given(metered_volume_litres) /\ given(metered_density_kg_m3)
            THEN calculate_mass_from_volume(metered_volume_litres, metered_density_kg_m3)
            ELSE IF given(metered_volume_litres)
            THEN calculate_mass_from_volume(
                     metered_volume_litres,
                     (source_before.density_at_temp_kg_m3
                        + dest_after.density_at_temp_kg_m3) \div 2)
            ELSE source_change
        discrepancy   == dest_change - source_change
        reference_mass == MaxOf({source_change, dest_change, metered_mass, 1})
    IN  [discrepancy_kg |-> discrepancy,
         reference_mass |-> reference_mass,
         metered_mass_kg |-> metered_mass,
         status |-> IF Abs(discrepancy) * 200 <= reference_mass THEN "BALANCED"
                    ELSE IF discrepancy > 0 THEN "GAIN" ELSE "LOSS"]

MassResult(mass_kg, density) == [mass_kg |-> mass_kg, density_at_temp_kg_m3 |-> density]

TankMasses == {0, 1000, 1004, 1010, 2000}

\* metered volume and density: no meter, a meter without density, a meter
\* that read more than either tank changed
MeterReadings == {<<Null, Null>>, <<1000, Null>>, <<5000, 800>>}

\* last.arg = <<source loss, destination gain, <<metered volume, metered
\* density>>, result>>; the tanks' densities are 800 and 820
ReconcileStep ==
    \E sb \in TankMasses, sa \in TankMasses, db \in TankMasses, da \in TankMasses,
       meter \in MeterReadings :
        /\ last' = [Idle EXCEPT
              !.op = "reconcile",
              !.arg = <<sb - sa, da - db, meter,
                        reconcile_transfer(MassResult(sb, 800), MassResult(sa, 800),
                                           MassResult(db, 820), MassResult(da, 820),
                                           meter[1], meter[2])>>]
        /\ UnchangedButLast

InitReconcile == StartedWith(Idle)

NextReconcile == ReconcileStep

SpecReconcile == InitReconcile /\ [][NextReconcile]_vars

-----------------------------------------------------------------------------
(* The rule loop of check_and_process_asset_alerts on assets and rules     *)
(* whose names contain underscores                                         *)

\* a tank id of generate_placeholder_strapping (TANK_101), and a longer id
KeyAssets == {"TANK_101", "TANK_101_TANK"}

KeyAlertNames == {"TANK_LEVEL_HIGH", "LEVEL_HIGH"}

KeyRule(n) == to_rule_dict(Rule(n, "gte", 9000, Null, 0, GoodTemplate))

\* one iteration of the rule loop for asset a and the rule named n on value
\* val; last.arg = <<a, n>>
KeyEvaluate(a, n, val) ==
    LET st == CheckRule([al |-> alerts, tr |-> potential_alerts_tracker,
                         exc |-> FALSE, obs |-> {}, failed |-> {}, kept |-> {}],
                        a, KeyRule(n), val, now, {})
    IN  /\ Len(st.al) <= MaxAlerts
        /\ alerts' = st.al
        /\ potential_alerts_tracker' = st.tr
        /\ last' = [Idle EXCEPT !.op = "rule", !.asset = a, !.arg = <<a, n>>]
        /\ UNCHANGED <<now, alert_configurations, sensor_readings, calculated_data,
                       digital_twin_state, ALERT_RULES, alert_rules, alert_cycle,
                       calc_cycle, save_race, first_true>>

KeyStep ==
    \E a \in KeyAssets, n \in KeyAlertNames, v \in {8300, 9200, 9500} :
        KeyEvaluate(a, n, Num(v))

InitKeys == StartedWith(Idle)

NextKeys == KeyStep

SpecKeys == InitKeys /\ [][NextKeys]_vars

-----------------------------------------------------------------------------
(* Calculation service whose cycles keep running                           *)

\* process_tank / process_pump of asset a with the storage answering
ProcessWithoutStorageError(a) ==
    /\ calc_cycle.queue # << >>
    /\ Head(calc_cycle.queue) = a
    /\ CalcProcessAsset({})

\* level readings of tank T1, which has a strapping table
RepairDataStep ==
    \E ts \in 1..MaxDataTime :
        DataProcessorOnMessage("T1", "level_mm", Num(14720), ts, FALSE)

\* the storage answers, or fails on volume_gov
RepairCalcStep == \E dberr \in {{}, {"volume_gov"}} : CalcProcessAsset(dberr)

NextRepair == RepairDataStep \/ CalcCycleStart \/ RepairCalcStep \/ CalcCycleFinish

\* start() runs cycle after cycle, a cycle runs through all its assets, and
\* no asset meets a storage error in every cycle
SpecRepair ==
    /\ InitCalc
    /\ [][NextRepair]_vars
    /\ WF_vars(CalcCycleStart)
    /\ WF_vars(CalcCycleFinish)
    /\ \A a \in CalcAssets : SF_vars(ProcessWithoutStorageError(a))

-----------------------------------------------------------------------------
(* TankTransferSimulator: volumes in litres, last.arg is the state of run() *)

MinOf(S) == CHOOSE x \in S : \A y \in S : x <= y

time_step_minutes == 5

\* iterations of the while loop a run is followed for
MaxIterations == 6

\* __init__ and the statements of run() before its loop
TankTransferSimulator(source_volume, source_capacity, dest_volume, dest_capacity, flow_rate_lpm) ==
    [source_vol           |-> source_volume,
     dest_vol             |-> dest_volume,
     dest_high_level      |-> (dest_capacity * 95) \div 100,
     source_low_level     |-> (source_capacity * 5) \div 100,
     timestamps           |-> <<0>>,
     source_vols          |-> <<source_volume>>,
     dest_vols            |-> <<dest_volume>>,
     alerts               |-> << >>,
     elapsed_time_minutes |-> 0,
     volume_per_step      |-> flow_rate_lpm * time_step_minutes]

\* the condition of the while loop
TransferGoesOn(s) ==
    s.source_vol > s.source_low_level /\ s.dest_vol < s.dest_high_level

\* one pass through the body of the while loop
TransferIteration(s) ==
    LET transfer_vol == MinOf({s.volume_per_step,
                               s.source_vol - s.source_low_level,
                               s.dest_high_level - s.dest_vol})
        source_vol   == s.source_vol - transfer_vol
        dest_vol     == s.dest_vol + transfer_vol
        elapsed      == s.elapsed_time_minutes + time_step_minutes
        high         == IF dest_vol >= s.dest_high_level THEN <<"High Level Alarm">> ELSE << >>
        low          == IF source_vol <= s.source_low_level THEN <<"Low Level Alarm">> ELSE << >>
    IN  [s EXCEPT !.source_vol = source_vol,
                  !.dest_vol = dest_vol,
                  !.elapsed_time_minutes = elapsed,
                  !.timestamps = Append(@, elapsed),
                  !.source_vols = Append(@, source_vol),
                  !.dest_vols = Append(@, dest_vol),
                  !.alerts = @ \o high \o low]

SimulatorIterate ==
    /\ last.op = "simulate"
    /\ TransferGoesOn(last.arg)
    /\ Len(last.arg.timestamps) <= MaxIterations
    /\ last' = [last EXCEPT !.arg = TransferIteration(@)]
    /\ UnchangedButLast

\* the loop is left and run() returns its summary
SimulatorReturn ==
    /\ last.op = "simulate"
    /\ ~TransferGoesOn(last.arg)
    /\ last' = [last EXCEPT !.op = "simulated"]
    /\ UnchangedButLast

SimulatorVolumes == {0, 40, 500, 980}

SimulatorCapacities == {0, 1000}

SimulatorFlowRates == {0, 40, 100}

InitSimulate ==
    \E sv \in SimulatorVolumes, dv \in SimulatorVolumes,
       sc \in SimulatorCapacities, dc \in SimulatorCapacities,
       flow \in SimulatorFlowRates :
        StartedWith([Idle EXCEPT !.op = "simulate",
                                 !.arg = TankTransferSimulator(sv, sc, dv, dc, flow)])

NextSimulate == SimulatorIterate \/ SimulatorReturn

SpecSimulate == InitSimulate /\ [][NextSimulate]_vars

-----------------------------------------------------------------------------
(* Vocabulary of the properties *)

ConfiguredRules == {alert_configurations[i] : i \in DOMAIN alert_configurations}

ActiveRows(al, a, n) ==
    {i \in DOMAIN al :
        al[i].asset_id = a /\ al[i].alert_name = n /\ al[i].status = "Active"}

RowsOf(al, a, n) ==
    {i \in DOMAIN al : al[i].asset_id = a /\ al[i].alert_name = n}

\* the comparison a rule row asks for, whichever spelling it is written in
Triggers(r, v) ==
    /\ v.kind = "num"
    /\ \/ r.condition_type \in {">", "gt"}   /\ v.v > r.threshold_value
       \/ r.condition_type \in {"<", "lt"}   /\ v.v < r.threshold_value
       \/ r.condition_type \in {">=", "gte"} /\ v.v >= r.threshold_value
       \/ r.condition_type \in {"<=", "lte"} /\ v.v <= r.threshold_value

\* past the clear threshold in the safe direction
PastClear(r, v) ==
    /\ v.kind = "num"
    /\ \/ r.condition_type \in {">", "gt", ">=", "gte"} /\ v.v < r.clear_threshold_value
       \/ r.condition_type \in {"<", "lt", "<=", "lte"} /\ v.v > r.clear_threshold_value

InBand(r, v) ==
    /\ r.clear_threshold_value # Null
    /\ r.clear_threshold_value # r.threshold_value
    /\ v.kind = "num"
    /\ ~Triggers(r, v)
    /\ ~PastClear(r, v)

\* this step is an evaluation of the rules of asset a, by either evaluator
Evaluates(a) ==
    /\ last'.op \in {"alert_check", "msg", "evaluate", "batch_evaluate"}
    /\ last'.asset = a

\* the value of rule r's metric that the evaluation of this step looks at
ValueSeen(a, r) ==
    IF last'.op = "alert_check" THEN alert_cycle.state[a][r.metric_name]
    ELSE get_asset_metric_value(digital_twin_state'[a], AssetType(a), r.metric_name)

-----------------------------------------------------------------------------
(* Calculation cycle *)

\* C8: when a calculation cycle ends, every tank and every pump has been
\* handed to process_tank / process_pump in that cycle, also when one of them
\* raised.
CycleProcessesEveryAsset == (last.op = "calc_finish") => calc_cycle.done = CalcAssets

CycleSurvivedFailure ==
    /\ last.op = "calc_finish"
    /\ "T1" \in calc_cycle.failed
    /\ {"T2", "P1"} \subseteq calc_cycle.done

\* the latest proxy row of asset a is at least as new as every raw reading
NoNewerRaw(a) ==
    LET proxy == IF AssetType(a) = "StorageTank" THEN "level_percentage" ELSE "energy_kwh"
        raw   == IF AssetType(a) = "StorageTank" THEN "level_mm" ELSE "pump_status"
    IN  /\ \E r \in sensor_readings : r.asset_id = a /\ r.metric_name = raw
        /\ \E c \in calculated_data :
              /\ c.asset_id = a /\ c.metric_name = proxy
              /\ \A r \in sensor_readings :
                    (r.asset_id = a /\ r.metric_name = raw) => c.time >= r.time

\* C10: processing a tank or pump whose proxy metric is already at least as
\* new as its latest raw reading calls save_calculated_data zero times and
\* leaves calculated_data as it was.
SecondCycleSavesNothing ==
    [][\A a \in CalcAssets :
         (last'.op = "calc_process" /\ last'.asset = a /\ NoNewerRaw(a))
         => (calculated_data' = calculated_data /\ last'.saves = 0)]_vars

TankAndPumpSkipped ==
    /\ last.op = "calc_process"
    /\ {"T1", "P1"} \subseteq calc_cycle.skipped
    /\ NoNewerRaw("T1") /\ NoNewerRaw("P1")

-----------------------------------------------------------------------------
(* Batch alerting cycle *)

\* C3: an Active alert of a rule with duration_seconds appears only in a step
\* at which duration_seconds have passed since an evaluation first found the
\* rule's condition true for that asset.
OpensOnlyAfterDuration ==
    [][\A a \in AssetIds : \A r \in ConfiguredRules :
         (/\ r.duration_seconds # Null
          /\ ~HasActive(alerts, a, r.alert_name)
          /\ HasActive(alerts', a, r.alert_name))
         => (/\ first_true'[<<a, r.alert_name>>] # Null
             /\ now - first_true'[<<a, r.alert_name>>] >= r.duration_seconds)]_vars

\* C5: an evaluation that sees a value inside the hysteresis band of a rule
\* leaves the Active alert of that rule Active.
BandKeepsActive ==
    [][\A a \in AssetIds : \A r \in ConfiguredRules :
         (/\ r.asset_type = AssetType(a)
          /\ Evaluates(a)
          /\ HasActive(alerts, a, r.alert_name)
          /\ InBand(r, ValueSeen(a, r)))
         => HasActive(alerts', a, r.alert_name)]_vars

\* C18: an evaluation, by the batch cycle or on a message, marks an Active
\* alert Resolved only if the rule's comparison is false for the value it
\* sees, whichever spelling the rule's comparator is stored in.
ResolvedOnlyWhenConditionFalse ==
    [][\A a \in AssetIds : \A r \in ConfiguredRules :
         (/\ r.asset_type = AssetType(a)
          /\ Evaluates(a)
          /\ HasActive(alerts, a, r.alert_name)
          /\ ~HasActive(alerts', a, r.alert_name))
         => ~Triggers(r, ValueSeen(a, r))]_vars

\* C9: when an alert cycle ends, every asset has been checked in that cycle,
\* also when the check of one of them raised.
AlertCycleChecksEveryAsset ==
    (last.op = "alert_finish") => alert_cycle.done = AssetIds

-----------------------------------------------------------------------------
(* Message-driven evaluation *)

\* the candidate of (a, r) has waited out the duration and is not yet opened
CandidateDue(a, r) ==
    LET key == AlertKey(a, r.alert_name)
    IN  /\ key \in DOMAIN potential_alerts_tracker
        /\ ~potential_alerts_tracker[key].notified_active
        /\ now - potential_alerts_tracker[key].first_seen_utc >= r.duration_seconds

\* this step evaluates duration rule r for asset a, finds its condition true
\* without failing, and its storage call succeeds
SustainedEvaluation(a, r) ==
    /\ r.asset_type = AssetType(a)
    /\ r.duration_seconds # Null
    /\ last'.op = "msg" /\ last'.asset = a
    /\ r.alert_name \in last'.obs
    /\ ~last'.exc

Cleared(r, v) ==
    /\ v.kind = "num"
    /\ ~Triggers(r, v)
    /\ r.clear_threshold_value # Null => PastClear(r, v)

\* C6: after an evaluation that finds the condition of a rule cleared (and
\* whose storage call succeeds) neither an Active row nor a candidate entry
\* of that rule remains for the asset.
ClearedLeavesNothing ==
    [][\A a \in AssetIds : \A r \in ConfiguredRules :
         (/\ r.asset_type = AssetType(a)
          /\ Evaluates(a)
          /\ ~last'.exc
          /\ r.alert_name \notin last'.failed
          /\ Cleared(r, ValueSeen(a, r)))
         => (/\ ~HasActive(alerts', a, r.alert_name)
             /\ AlertKey(a, r.alert_name) \notin DOMAIN potential_alerts_tracker')]_vars

-----------------------------------------------------------------------------
(* Alert storage under one evaluator at a time *)

\* C1: whatever evaluations have run, one after the other, an (asset, alert)
\* pair has at most one Active row, and an evaluation that finds the
\* condition true while the pair is Active adds no row for it.
OneActiveRowPerPair ==
    [][\A a \in AssetIds : \A n \in AlertNames :
         /\ Cardinality(ActiveRows(alerts', a, n)) <= 1
         /\ (Evaluates(a) /\ n \in last'.obs /\ HasActive(alerts, a, n))
            => RowsOf(alerts', a, n) = RowsOf(alerts, a, n)]_vars

\* the alert was opened, resolved, opened again, and then triggered once
\* more while Active
RetriggeredWhileActive ==
    \E n \in AlertNames :
        /\ last.op \in {"evaluate", "batch_evaluate"} /\ last.asset = "T1"
        /\ n \in last.kept
        /\ Cardinality(ActiveRows(alerts, "T1", n)) = 1
        /\ Cardinality(RowsOf(alerts, "T1", n)) = 2

\* C7: an evaluation that meets a value float() rejects leaves the rule
\* alone: the rows of the pair and its candidate entry are as before, and the
\* evaluation does not raise.
NonNumericSkipsRule ==
    [][\A a \in AssetIds : \A r \in ConfiguredRules :
         LET n   == r.alert_name
             key == AlertKey(a, n)
         IN  (/\ r.asset_type = AssetType(a)
              /\ last'.op \in {"msg", "evaluate"} /\ last'.asset = a
              /\ ValueSeen(a, r).kind = "str")
             => /\ ~last'.exc
                /\ RowsOf(alerts', a, n) = RowsOf(alerts, a, n)
                /\ ActiveRows(alerts', a, n) = ActiveRows(alerts, a, n)
                /\ (key \in DOMAIN potential_alerts_tracker')
                     = (key \in DOMAIN potential_alerts_tracker)
                /\ key \in DOMAIN potential_alerts_tracker
                     => potential_alerts_tracker'[key] = potential_alerts_tracker[key]]_vars

-----------------------------------------------------------------------------
(* Alert storage under two evaluators at once *)

\* C2: with the batch evaluator and the message evaluator inside save_alert
\* for the same pair at the same time, the pair still has at most one Active
\* row.
OneActiveRowUnderInterleaving ==
    \A a \in AssetIds : \A n \in AlertNames :
        Cardinality(ActiveRows(alerts, a, n)) <= 1
-----------------------------------------------------------------------------
(* Storage of derived metrics *)

CalcRowsOf(rows, t, a, m) ==
    {r \in rows : r.time = t /\ r.asset_id = a /\ r.metric_name = m}

CalcKeys == (0..(MaxDataTime + 1)) \X AssetIds \X (StoreMetrics \cup {"level_percentage"})

\* C11: after every save_calculated_data call the table holds at most one row
\* per (asset_id, metric_name, time); a successful call leaves exactly the row
\* with its value under its key, a failed call leaves the key as it was, and
\* no call touches another key - so each key holds the value of the last
\* successful call for it.
UpsertKeepsLastValue ==
    [][ (last'.op = "save_calculated") =>
          LET key == <<last'.arg[1], last'.asset, last'.arg[2]>>
          IN  /\ \A k \in CalcKeys :
                    Cardinality(CalcRowsOf(calculated_data', k[1], k[2], k[3])) <= 1
              /\ \A k \in CalcKeys \ {key} :
                    CalcRowsOf(calculated_data', k[1], k[2], k[3])
                        = CalcRowsOf(calculated_data, k[1], k[2], k[3])
              /\ (last'.failed = {}) =>
                    CalcRowsOf(calculated_data', key[1], key[2], key[3])
                        = {[time |-> key[1], asset_id |-> key[2],
                            metric_name |-> key[3], value |-> last'.arg[3]]}
              /\ (last'.failed # {}) =>
                    CalcRowsOf(calculated_data', key[1], key[2], key[3])
                        = CalcRowsOf(calculated_data, key[1], key[2], key[3])
      ]_vars

\* a call failed on a key that an earlier call had written with another value
FailedCallKeptEarlierValue ==
    /\ last.op = "save_calculated"
    /\ last.failed # {}
    /\ \E r \in CalcRowsOf(calculated_data, last.arg[1], last.asset, last.arg[2]) :
          r.value # last.arg[3]
    /\ Cardinality(calculated_data) >= 3

-----------------------------------------------------------------------------
(* Ingestion *)

\* this step hands on_message the message it handled last, and neither
\* delivery met a storage error in save_sensor_reading
Redelivery ==
    /\ last'.op = "on_message"
    /\ last.arg # << >>
    /\ last'.arg[1] = last.arg[1]
    /\ "reading" \notin (last.failed \cup last'.failed)

\* C12: the second delivery of a message leaves the stored readings and the
\* stored derived metrics as the first delivery left them, and no exception
\* leaves on_message, so later messages are processed.
RedeliveryChangesNothingStored ==
    [][ Redelivery =>
          /\ sensor_readings' = sensor_readings
          /\ calculated_data' = calculated_data
          /\ last'.arg[2] # "raised"
          /\ ~LoopStopped'
      ]_vars

\* a tank message was processed a second time, later than the first, and its
\* reading was already stored under the same key
RedeliveredLater ==
    /\ last.op = "on_message"
    /\ last.arg[2] = "processed"
    /\ last.arg[6]
    /\ "reading" \notin last.failed
    /\ now >= 1
    /\ Cardinality(sensor_readings) = 2

\* the asset id on_message reads from the topic of msg is not a loaded asset
UnknownAsset(msg) ==
    LET parts == remaining_parts(msg.topic, MQTT_BASE_TOPIC)
    IN  Len(parts) >= 4 /\ parts[3] \notin DOMAIN digital_twin_state

\* C13: a message that is not JSON, that has no timestamp_utc or one that is
\* not an ISO-8601 value, or that names an unknown asset is dropped: in-memory
\* asset state, stored readings, derived metrics, alert rows and the debounce
\* tracker stay as they are, and no exception leaves on_message, so the next
\* message is processed.
InvalidMessageIsDropped ==
    [][ ( /\ last'.op = "on_message"
          /\ \/ last'.arg[1].payload # "ok"
             \/ UnknownAsset(last'.arg[1]) ) =>
          /\ UNCHANGED <<digital_twin_state, sensor_readings, calculated_data,
                         alerts, potential_alerts_tracker>>
          /\ last'.arg[2] # "raised"
          /\ ~LoopStopped'
      ]_vars

\* C15: when save_sensor_reading fails with a storage error, processing of
\* that message stops there: no derived metric is computed or stored and no
\* alert evaluation runs for it; on_message returns and the next message is
\* processed.
FailedReadingStopsMessage ==
    [][ (last'.op = "on_message" /\ "reading" \in last'.failed) =>
          /\ ~last'.arg[5]
          /\ UNCHANGED <<calculated_data, alerts, potential_alerts_tracker>>
          /\ ~LoopStopped'
      ]_vars

\* the step is on_message on a valid payload whose topic names a loaded asset
ValidForKnownAsset ==
    /\ last'.op = "on_message"
    /\ last'.arg[1].payload = "ok"
    /\ Len(remaining_parts(last'.arg[1].topic, MQTT_BASE_TOPIC)) >= 4
    /\ ~UnknownAsset(last'.arg[1])

\* C20: every valid message for a loaded asset has its reading stored and the
\* asset's in-memory value of that metric updated, and alert evaluation then
\* runs for the asset - whatever the asset type and the metric name.
EveryValidMessageIsStored ==
    [][ (ValidForKnownAsset /\ "reading" \notin last'.failed) =>
          /\ last'.arg[3]
          /\ last'.arg[4]
          /\ last'.arg[5]
      ]_vars

-----------------------------------------------------------------------------
(* Topics *)

\* C14: a message published on {base}/sensor/{asset_id}/{metric}/data is
\* handled by each on_message callback as a reading of that metric for that
\* asset, whatever the base topic.
TopicNamesAssetAndMetric ==
    [][ (last'.op = "deliver") =>
          LET read == [ok |-> TRUE, asset_id |-> last'.asset, metric |-> last'.arg[2]]
          IN  last'.arg[3] = read /\ last'.arg[4] = read
      ]_vars

-----------------------------------------------------------------------------
(* Strapping interpolation *)

TableMin(table) == table[CHOOSE k \in DOMAIN table : \A j \in DOMAIN table : k <= j]

TableMax(table) == table[CHOOSE k \in DOMAIN table : \A j \in DOMAIN table : j <= k]

\* C16: over a strapping table with increasing levels and non-decreasing
\* volumes the GOV does not decrease with the level, is the table's minimum
\* volume below the lowest table level and its maximum volume above the
\* highest (no extrapolation), and is the table volume at each table level.
GovMonotoneClampedExact ==
    last.op = "gov" =>
        LET table == last.arg[1]
            level == last.arg[2]
            gov   == last.arg[3]
            ks    == DOMAIN table
        IN  /\ (last.arg[4] # Null /\ last.arg[4] <= level) => last.arg[5] <= gov
            /\ (last.arg[4] # Null /\ last.arg[4] >= level) => last.arg[5] >= gov
            /\ (\A k \in ks : level < k) => gov = TableMin(table)
            /\ (\A k \in ks : level > k) => gov = TableMax(table)
            /\ level \in ks => gov = table[level]

\* a level above the table after a level inside it, on a table that rises
GovAboveTableAfterInside ==
    /\ last.op = "gov"
    /\ Cardinality(DOMAIN last.arg[1]) = 3
    /\ last.arg[1][1000] < last.arg[1][2000]
    /\ last.arg[1][2000] < last.arg[1][3000]
    /\ last.arg[2] = 3500
    /\ last.arg[4] = 1250
    /\ last.arg[5] > last.arg[1][1000]
    /\ last.arg[5] < last.arg[1][2000]

-----------------------------------------------------------------------------
(* Volume correction *)

\* C17: at the reference temperature the volume correction factor is 1 and
\* the GSV is the GOV to two decimals, for every GOV and every positive
\* density, in the batch calculator and in the ingestion-path calculator.
GsvIsGovAtReference ==
    (last.op = "gsv" /\ last.arg[2] = STANDARD_REFERENCE_TEMPERATURE_CELSIUS
                     /\ last.arg[3] > 0) =>
        /\ last.arg[5] = 100000
        /\ last.arg[6] = last.arg[1]
        /\ last.arg[7] = Dec(last.arg[1])

-----------------------------------------------------------------------------
(* Comparators *)

\* `value comparator threshold` for the six comparators, in either spelling
Compares(cond, v, thr) ==
    \/ cond \in {">", "gt"}   /\ v > thr
    \/ cond \in {"<", "lt"}   /\ v < thr
    \/ cond \in {">=", "gte"} /\ v >= thr
    \/ cond \in {"<=", "lte"} /\ v <= thr
    \/ cond \in {"==", "eq"}  /\ v = thr
    \/ cond \in {"!=", "ne"}  /\ v # thr

\* C19: for each of the six comparators and every numeric value, the batch
\* evaluator and the message-driven evaluator both treat the stored rule as
\* triggered exactly when `value comparator threshold` holds, so they agree.
EvaluatorsCompareAlike ==
    last.op = "compare" =>
        /\ last.arg[4] = Compares(last.arg[1], last.arg[2], last.arg[3])
        /\ last.arg[5] = Compares(last.arg[1], last.arg[2], last.arg[3])

-----------------------------------------------------------------------------
(* Configuration reload *)

\* C21: every evaluation, by the batch cycle or on a message, applies the
\* enabled rules as they are stored when it runs: after a rule was disabled
\* or changed in storage no later evaluation applies the old rule.
EvaluationUsesStoredRules ==
    /\ last.op = "evaluate" =>
          ALERT_RULES = load_alert_rules_from_db(alert_configurations)
    /\ last.op = "batch_evaluate" =>
          alert_rules = load_alert_rules_from_db(alert_configurations)

-----------------------------------------------------------------------------
(* Rule scope *)

\* an enabled rule named n is stored for the type of asset a
EnabledRuleFor(a, n) ==
    \E r \in ConfiguredRules :
        r.is_enabled /\ r.alert_name = n /\ r.asset_type = AssetType(a)

\* C22: an alert named by a rule exists, Active or Resolved, only for assets
\* of the rule's asset_type, the evaluators look only at the rules of the
\* asset's type, and a rule that was not enabled when the rules were loaded
\* is never evaluated.
RulesAreTypeScoped ==
    /\ \A i \in DOMAIN alerts : EnabledRuleFor(alerts[i].asset_id, alerts[i].alert_name)
    /\ \A a \in AssetIds : \A r \in ConfiguredRules :
          AlertKey(a, r.alert_name) \in DOMAIN potential_alerts_tracker
              => EnabledRuleFor(a, r.alert_name)
    /\ last.op \in {"evaluate", "batch_evaluate"} =>
          \A n \in last.obs : EnabledRuleFor(last.asset, n)

\* the pump's alert is Active, the tank's is not, while the tank's value
\* would trigger the disabled rule and the pump's rule alike
PumpAlertOnlyOnPump ==
    /\ \E i \in DOMAIN alerts :
          alerts[i] = [asset_id |-> "P1", alert_name |-> "PUMP_POWER_HIGH", status |-> "Active"]
    /\ \E i \in DOMAIN alerts :
          alerts[i] = [asset_id |-> "T1", alert_name |-> "TANK_LEVEL_HIGH", status |-> "Resolved"]
    /\ digital_twin_state["T1"].current_level_percentage = Num(8300)
    /\ last.op \in {"evaluate", "batch_evaluate"}
    /\ last.asset = "T1"

-----------------------------------------------------------------------------
(* Shutdown *)

\* C23: a shutdown request takes effect between two assets: the cycle stops
\* before the next asset, with no asset left partly processed, and no
\* further cycle starts.
ShutdownStopsBetweenAssets ==
    [][ /\ last'.op = "shutdown" => last'.asset = ""
        /\ calc_cycle.pc = "exited" => /\ calc_cycle' = calc_cycle
                                       /\ calculated_data' = calculated_data
      ]_vars

-----------------------------------------------------------------------------
(* Prerequisites of process_tank *)

\* calculated_data holds metric m of tank T1 for time t
HasMetric(m, t) ==
    \E c \in calculated_data : c.asset_id = "T1" /\ c.metric_name = m /\ c.time = t

-----------------------------------------------------------------------------
(* Transfer reconciliation *)

\* BALANCED when abs(discrepancy) is at most 0.5 % of the reference mass,
\* otherwise GAIN or LOSS by the sign of the discrepancy
StatusFor(discrepancy, reference) ==
    IF Abs(discrepancy) * 200 <= reference THEN "BALANCED"
    ELSE IF discrepancy > 0 THEN "GAIN" ELSE "LOSS"

\* the mass the meter stands for: volume times its density, or times the
\* mean of the two tanks' densities (810) when it gives none; the source
\* loss when no volume was metered
MeteredMass(meter, source_loss) ==
    IF meter[1] \in {Null, 0} THEN source_loss
    ELSE IF meter[2] \in {Null, 0} THEN (meter[1] * 810) \div 1000
    ELSE (meter[1] * meter[2]) \div 1000

\* C25 as stated: the discrepancy is destination gain - source loss, the
\* percentage is taken of the larger of source loss and destination gain,
\* and the status is BALANCED exactly when it is <= 0.5, otherwise GAIN or
\* LOSS by the sign - with or without a metered volume.
StatusRelativeToLargerChange ==
    (last.op = "reconcile" /\ MaxOf({last.arg[1], last.arg[2]}) >= 1) =>
        /\ last.arg[4].discrepancy_kg = last.arg[2] - last.arg[1]
        /\ last.arg[4].status =
              StatusFor(last.arg[2] - last.arg[1], MaxOf({last.arg[1], last.arg[2]}))

\* C25 amended: the percentage is taken of the largest of source loss,
\* destination gain, the metered mass (the source loss when no metered volume
\* is given) and 1 kg.
StatusRelativeToLargestMass ==
    last.op = "reconcile" =>
        /\ last.arg[4].discrepancy_kg = last.arg[2] - last.arg[1]
        /\ last.arg[4].metered_mass_kg = MeteredMass(last.arg[3], last.arg[1])
        /\ last.arg[4].status =
              StatusFor(last.arg[2] - last.arg[1],
                        MaxOf({last.arg[1], last.arg[2],
                               MeteredMass(last.arg[3], last.arg[1]), 1}))

\* the meter read 4000 kg while the source lost 1000 kg and the destination
\* gained 990 kg: 1 % of the tank changes, 0.25 % of the metered mass
MeterMasksLoss ==
    /\ last.op = "reconcile"
    /\ last.arg[1] = 1000
    /\ last.arg[2] = 990
    /\ last.arg[4].metered_mass_kg = 4000
    /\ last.arg[4].status = "BALANCED"

-----------------------------------------------------------------------------
(* Debounce tracker *)

\* C26: a tracker entry with notified_active = True always has its Active
\* alert row in storage, also after a save_alert call that failed and after
\* the batch cycle resolved the alert.
NotifiedEntryHasActiveRow ==
    \A a \in AssetIds : \A n \in AlertNames :
        (/\ AlertKey(a, n) \in DOMAIN potential_alerts_tracker
         /\ potential_alerts_tracker[AlertKey(a, n)].notified_active)
        => HasActive(alerts, a, n)


\* C27: an evaluation that finds the condition of a duration rule not true,
\* inside the hysteresis band included, discards the candidate, so that the
\* alert opens only after the condition was true at every evaluation since
\* first_seen.
FalseEvaluationRestartsTimer ==
    [][\A a \in AssetIds : \A r \in ConfiguredRules :
         (/\ r.asset_type = AssetType(a)
          /\ r.duration_seconds # Null
          /\ Evaluates(a)
          /\ AlertKey(a, r.alert_name) \in DOMAIN potential_alerts_tracker
          /\ ~potential_alerts_tracker[AlertKey(a, r.alert_name)].notified_active
          /\ ~Triggers(r, ValueSeen(a, r)))
         => AlertKey(a, r.alert_name) \notin DOMAIN potential_alerts_tracker']_vars


\* the candidate state the tracker holds for the pair (a, n)
CandidateOf(tr, a, n) ==
    IF AlertKey(a, n) \in DOMAIN tr
    THEN <<tr[AlertKey(a, n)].first_seen_utc, tr[AlertKey(a, n)].notified_active>>
    ELSE << >>

\* C28: evaluating one (asset_id, alert_name) pair leaves the candidate
\* state of every other pair as it was, underscores in the asset ids and
\* alert names or not.
PairsHaveSeparateEntries ==
    [][last'.op = "rule" =>
         \A a \in KeyAssets : \A n \in KeyAlertNames :
            <<a, n>> # last'.arg =>
               CandidateOf(potential_alerts_tracker', a, n)
                  = CandidateOf(potential_alerts_tracker, a, n)]_vars


-----------------------------------------------------------------------------
(* Repair of a half-processed reading *)

Persisted(a, m, t) ==
    \E c \in calculated_data : c.asset_id = a /\ c.metric_name = m /\ c.time = t

\* C29: once level_percentage of a tank reading is stored and the tank has a
\* strapping table, volume_gov for the same timestamp is stored eventually,
\* whatever went wrong after level_percentage was saved.
VolumeGovEventuallyPersisted ==
    \A a \in {"T1", "T2"} : \A t \in 1..MaxDataTime :
        (Persisted(a, "level_percentage", t) /\ get_strapping_data_from_db(a) # << >>)
            ~> Persisted(a, "volume_gov", t)


-----------------------------------------------------------------------------
(* Termination of the transfer simulation *)

\* C30: run() terminates for every input with non-negative volumes,
\* capacities and flow rate. Its loop reads and writes only source_vol and
\* dest_vol, so it terminates only if no iteration after which the loop goes
\* on leaves both volumes as they were.
RunTerminates ==
    [][(/\ last.op = "simulate"
        /\ last'.op = "simulate"
        /\ TransferGoesOn(last'.arg))
       => <<last'.arg.source_vol, last'.arg.dest_vol>>
             # <<last.arg.source_vol, last.arg.dest_vol>>]_vars

====
